---------------------------- MODULE Spec2Model ----------------------------
(***************************************************************************)
(* Storage and transactional core of imoocdb: lock manager, LRU buffer     *)
(* pool, slotted pages, heap access, redo/undo logs, transaction manager,  *)
(* B+ tree index, and the planner's access-path selection.                 *)
(***************************************************************************)
EXTENDS Integers, Sequences, FiniteSets, TLC

VARIABLES
    locks,        \* LockManager.locks: resource -> [lock_mode, holders]
    lk,           \* per thread: the frame of its acquire_lock call
    lru,          \* an LRUCache instance: capacity, cache, list order, evicted
    lru_last,     \* the last LRUCache call: name, arguments, whether it raised
    lru_pinned,   \* history: pin(PinnedKey) was called, no unpin(PinnedKey)
                  \* since, and the key has not left the cache
    buffer_pool,  \* BufferPool: lru_cache (key -> Page) and dirty_pages
    redo_mgr,     \* RedoLogManager: log_buffer, write_lsn, flush_lsn
    redo_file,    \* the redo log file: the records flushed so far
    undo_mgr,     \* UndoLogManager.active_transactions: xid -> records
    undo_files,   \* the files undo/<xid>: xid -> records flushed so far
    tbl_files,    \* the files <table>.tbl: table -> pages written so far
    current_xid,  \* TransactionManager.current_xid
    thread_xid,   \* TransactionManager.thread_local.xid of each thread
    phase,        \* "up", "crashed" (restarted, recovery not yet run) or
                  \* "raised" (recovery ended in an exception)
    txn_last,     \* the last storage call: name, thread, xid, exception
    hist,         \* history: what each running and committed transaction did
    pg,           \* a Page: header fields, slot directory, records
    pg_last,      \* the last Page call: name, arguments, returned sid, exception
    pg_hist,      \* history: per sid, the bytes last written to the slot
    bt,           \* a BPlusTree object: node objects, root, node_count
    bt_file,      \* the index file: root pageno and one page per node
    bt_last,      \* the last BPlusTree call: name, arguments, result, exception
    bt_hist,      \* history: call count, the entries inserted and not deleted
    heap,         \* the heap session: its last call and result, call count,
                  \* history: the tuple last written at each location
    plan,         \* the last implement_scan call: the catalog rows of the
                  \* table, the scan node, the physical operator returned
    ix,           \* the index session: the index file of the table's index,
                  \* the last call, history: the entries before the transaction
    rw            \* the threads writing the redo log: per thread the frame of
                  \* its RedoLogManager.write call; history: the records
                  \* appended, in order

lockVars == <<locks, lk>>
lruVars == <<lru, lru_last, lru_pinned>>
txnVars == <<buffer_pool, redo_mgr, redo_file, undo_mgr, undo_files, tbl_files,
             current_xid, thread_xid, phase, txn_last, hist>>
pageVars == <<pg, pg_last, pg_hist>>
treeVars == <<bt, bt_file, bt_last, bt_hist>>
heapVars == <<heap>>
planVars == <<plan>>
ixVars == <<ix>>
redoVars == <<rw>>
vars == <<lockVars, lruVars, txnVars, pageVars, treeVars, heapVars, planVars, ixVars,
          redoVars>>

(***************************************************************************)
(* Python dict helpers.                                                    *)
(***************************************************************************)
EmptyDict == [x \in {} |-> 0]

DictSet(d, k, v) == [x \in (DOMAIN d) \cup {k} |-> IF x = k THEN v ELSE d[x]]

DictDel(d, k) == [x \in (DOMAIN d) \ {k} |-> d[x]]

Range(s) == {s[i] : i \in DOMAIN s}

\* list.remove(e): drops the first occurrence of e
ListRemove(s, e) ==
    LET i == CHOOSE j \in DOMAIN s : s[j] = e /\ \A h \in 1..(j - 1) : s[h] # e
    IN  SubSeq(s, 1, i - 1) \o SubSeq(s, i + 1, Len(s))

Count(s, e) == Cardinality({i \in DOMAIN s : s[i] = e})

\* F applied to the value of e, e being evaluated once
Let(e, F(_)) == CHOOSE y \in {F(x) : x \in {e}} : TRUE

(***************************************************************************)
(* Lock manager (src/storage/lock/lock.py)                                 *)
(***************************************************************************)
MaxHolders == 3

Threads == {1, 2}
Resources == {"r", "q"}
Modes == {"s", "x"}

\* mutant: membership instead of "no other holder"
if_only_duplicated_elements_member(l, e) == e \in Range(l)

if_only_duplicated_elements(l, e) == Range(l) = {e}

\* mutant: an X request on an X lock is granted to its sole holder
_acquire_lock_reentrant(l, resource, xid, mode) ==
    IF resource \notin DOMAIN l
    THEN [locks |-> DictSet(l, resource, [lock_mode |-> mode, holders |-> <<xid>>]),
          success |-> TRUE]
    ELSE IF l[resource].lock_mode = "s" /\ mode = "s"
    THEN [locks |-> [l EXCEPT ![resource].holders = Append(@, xid)],
          success |-> TRUE]
    ELSE IF if_only_duplicated_elements(l[resource].holders, xid)
    THEN [locks |-> [l EXCEPT ![resource].lock_mode = "x",
                              ![resource].holders = Append(@, xid)],
          success |-> TRUE]
    ELSE [locks |-> l, success |-> FALSE]

\* one grant attempt under lock_mutex: the new lock table and the verdict
_acquire_lock(l, resource, xid, mode) ==
    IF resource \notin DOMAIN l
    THEN [locks |-> DictSet(l, resource, [lock_mode |-> mode, holders |-> <<xid>>]),
          success |-> TRUE]
    ELSE IF l[resource].lock_mode = "s" /\ mode = "s"
    THEN [locks |-> [l EXCEPT ![resource].holders = Append(@, xid)],
          success |-> TRUE]
    ELSE IF l[resource].lock_mode = "s" /\ mode = "x"
    THEN IF if_only_duplicated_elements(l[resource].holders, xid)
         THEN [locks |-> [l EXCEPT ![resource].lock_mode = "x",
                                   ![resource].holders = Append(@, xid)],
               success |-> TRUE]
         ELSE [locks |-> l, success |-> FALSE]
    ELSE IF l[resource].lock_mode = "x" /\ mode = "s"
    THEN IF if_only_duplicated_elements(l[resource].holders, xid)
         THEN [locks |-> [l EXCEPT ![resource].holders = Append(@, xid)],
               success |-> TRUE]
         ELSE [locks |-> l, success |-> FALSE]
    ELSE [locks |-> l, success |-> FALSE]

\* mutant: drops every entry of xid, not one
release_lock_table_all(l, resource, xid) ==
    IF resource \in DOMAIN l /\ xid \in Range(l[resource].holders)
    THEN LET h == SelectSeq(l[resource].holders, LAMBDA e : e # xid)
         IN  IF h = <<>> THEN DictDel(l, resource)
                         ELSE [l EXCEPT ![resource].holders = h]
    ELSE l

\* release_lock body under lock_mutex
release_lock_table(l, resource, xid) ==
    IF resource \in DOMAIN l /\ xid \in Range(l[resource].holders)
    THEN LET h == ListRemove(l[resource].holders, xid)
         IN  IF h = <<>> THEN DictDel(l, resource)
                         ELSE [l EXCEPT ![resource].holders = h]
    ELSE l

IdleFrame == [pc |-> "idle", resource |-> "r", xid |-> 0, mode |-> "s",
              success |-> FALSE, try_count |-> 0, attempts |-> 0,
              outcome |-> "none"]

HolderTotal == LET RECURSIVE Sum(_)
                   Sum(S) == IF S = {} THEN 0
                             ELSE LET r == CHOOSE r \in S : TRUE
                                  IN  Len(locks[r].holders) + Sum(S \ {r})
               IN  Sum(DOMAIN locks)

\* acquire_lock entry: success = False, try_count = 0 (thread th runs
\* transaction xid = th)
acquire_lock(th, resource, mode) ==
    /\ lk[th].pc = "idle"
    /\ HolderTotal < MaxHolders
    /\ lk' = [lk EXCEPT ![th] = [pc |-> "loop", resource |-> resource, xid |-> th,
                                 mode |-> mode, success |-> FALSE, try_count |-> 0,
                                 attempts |-> 0, outcome |-> "none"]]
    /\ UNCHANGED <<locks, lruVars, txnVars, pageVars, treeVars, heapVars, planVars, ixVars, redoVars>>

\* loop body up to the sleep: one _acquire_lock call; on success the loop
\* ends and acquire_lock returns
acquire_lock_attempt(th) ==
    /\ lk[th].pc = "loop"
    /\ LET r == _acquire_lock(locks, lk[th].resource, lk[th].xid, lk[th].mode)
       IN  /\ locks' = r.locks
           /\ lk' = [lk EXCEPT ![th] =
                        IF r.success
                        THEN [IdleFrame EXCEPT !.outcome = "granted",
                                               !.attempts = lk[th].attempts + 1]
                        ELSE [@ EXCEPT !.attempts = @ + 1, !.pc = "sleep"]]
    /\ UNCHANGED <<lruVars, txnVars, pageVars, treeVars, heapVars, planVars, ixVars, redoVars>>

\* mutant: the loop test allows a third attempt
acquire_lock_wake_three(th) ==
    /\ lk[th].pc = "sleep"
    /\ LET n == lk[th].try_count + 1
       IN  lk' = [lk EXCEPT ![th] =
                    IF n < 3
                    THEN [@ EXCEPT !.try_count = n, !.pc = "loop"]
                    ELSE [IdleFrame EXCEPT !.outcome = "raised",
                                           !.attempts = lk[th].attempts]]
    /\ UNCHANGED <<locks, lruVars, txnVars, pageVars, treeVars, heapVars, planVars, ixVars, redoVars>>

\* time.sleep(lock_wait_timeout) returns: try_count += 1, then the loop test
\* and, after the loop, raise LockConflictError
acquire_lock_wake(th) ==
    /\ lk[th].pc = "sleep"
    /\ LET n == lk[th].try_count + 1
       IN  lk' = [lk EXCEPT ![th] =
                    IF n < 2
                    THEN [@ EXCEPT !.try_count = n, !.pc = "loop"]
                    ELSE [IdleFrame EXCEPT !.outcome = "raised",
                                           !.attempts = lk[th].attempts]]
    /\ UNCHANGED <<locks, lruVars, txnVars, pageVars, treeVars, heapVars, planVars, ixVars, redoVars>>

release_lock(th, resource) ==
    /\ lk[th].pc = "idle"
    /\ locks' = release_lock_table(locks, resource, th)
    /\ lk' = [lk EXCEPT ![th] =
                 [IdleFrame EXCEPT !.outcome =
                     IF locks' = locks THEN "noop" ELSE "released"]]
    /\ UNCHANGED <<lruVars, txnVars, pageVars, treeVars, heapVars, planVars, ixVars, redoVars>>

(***************************************************************************)
(* LRU cache (src/storage/lru.py).  The doubly linked list between the     *)
(* dummy head and tail is the sequence `order`, head.next first.           *)
(***************************************************************************)
LRU_CAPACITY == 100

LruCap == 2
NKeys == 3

LruKeys == 1..NKeys
LruVals == {"v", "w"}

LRUCache(capacity) ==
    [capacity |-> capacity, cache |-> EmptyDict, order |-> <<>>, evicted |-> EmptyDict]

_add(order, key) == Append(order, key)

_remove(order, key) == SelectSeq(order, LAMBDA k : k # key)

\* the walk `while evicted_node and evicted_node.pinned`: index of the first
\* unpinned node from head.next, Len + 1 when it stops on the dummy tail
first_unpinned(cache, order) ==
    LET cand == {i \in DOMAIN order : ~cache[order[i]].pinned}
    IN  IF cand = {} THEN Len(order) + 1
        ELSE CHOOSE i \in cand : \A j \in cand : i <= j

\* mutant: the victim is unlinked from the list but stays in the hash map
put_keep_victim(c, key, value) ==
    LET order0 == IF key \in DOMAIN c.cache THEN _remove(c.order, key) ELSE c.order
        cache1 == DictSet(c.cache, key, [value |-> value, pinned |-> FALSE])
        order1 == _add(order0, key)
    IN  IF Cardinality(DOMAIN cache1) > c.capacity
        THEN LET i == first_unpinned(cache1, order1)
             IN  IF i = Len(order1) + 1
                 THEN [lru |-> [c EXCEPT !.cache = DictDel(cache1, key),
                                         !.order = _remove(order1, key)],
                       raised |-> TRUE]
                 ELSE LET ek == order1[i]
                      IN  [lru |-> [c EXCEPT !.cache = cache1,
                                             !.order = _remove(order1, ek),
                                             !.evicted = DictSet(c.evicted, ek,
                                                                 cache1[ek].value)],
                           raised |-> FALSE]
        ELSE [lru |-> [c EXCEPT !.cache = cache1, !.order = order1],
              raised |-> FALSE]

\* put: the cache afterwards and whether LRUError was raised
put(c, key, value) ==
    LET order0 == IF key \in DOMAIN c.cache THEN _remove(c.order, key) ELSE c.order
        cache1 == DictSet(c.cache, key, [value |-> value, pinned |-> FALSE])
        order1 == _add(order0, key)
    IN  IF Cardinality(DOMAIN cache1) > c.capacity
        THEN LET i == first_unpinned(cache1, order1)
             IN  IF i = Len(order1) + 1
                 THEN [lru |-> [c EXCEPT !.cache = DictDel(cache1, key),
                                         !.order = _remove(order1, key)],
                       raised |-> TRUE]
                 ELSE LET ek == order1[i]
                      IN  [lru |-> [c EXCEPT !.cache = DictDel(cache1, ek),
                                             !.order = _remove(order1, ek),
                                             !.evicted = DictSet(c.evicted, ek,
                                                                 cache1[ek].value)],
                           raised |-> FALSE]
        ELSE [lru |-> [c EXCEPT !.cache = cache1, !.order = order1],
              raised |-> FALSE]

\* get: moves the node to the MRU end
get(c, key) ==
    IF key \in DOMAIN c.cache
    THEN [c EXCEPT !.order = _add(_remove(c.order, key), key)]
    ELSE c

pin(c, key) == [c EXCEPT !.cache[key].pinned = TRUE]

unpin(c, key) == [c EXCEPT !.cache[key].pinned = FALSE]

\* the keys are interchangeable, so the pin of one of them is followed
PinnedKey == CHOOSE k \in LruKeys : TRUE

LruPut(key, value) ==
    /\ LET r == put(lru, key, value)
       IN  /\ lru' = r.lru
           /\ lru_last' = [call |-> "put", key |-> key,
                           raised |-> r.raised]
           /\ lru_pinned' = (lru_pinned /\ PinnedKey \in DOMAIN r.lru.cache)
    /\ UNCHANGED <<lockVars, txnVars, pageVars, treeVars, heapVars, planVars, ixVars, redoVars>>

LruGet(key) ==
    /\ lru' = get(lru, key)
    /\ lru_last' = [call |-> "get", key |-> key,
                    raised |-> FALSE]
    /\ UNCHANGED lru_pinned
    /\ UNCHANGED <<lockVars, txnVars, pageVars, treeVars, heapVars, planVars, ixVars, redoVars>>

\* pin and unpin raise LRUError, changing nothing, when the key is not cached
LruPin(key) ==
    /\ lru' = IF key \in DOMAIN lru.cache THEN pin(lru, key) ELSE lru
    /\ lru_last' = [call |-> "pin", key |-> key,
                    raised |-> key \notin DOMAIN lru.cache]
    /\ lru_pinned' = (lru_pinned
                      \/ (key = PinnedKey /\ key \in DOMAIN lru.cache))
    /\ UNCHANGED <<lockVars, txnVars, pageVars, treeVars, heapVars, planVars, ixVars, redoVars>>

LruUnpin(key) ==
    /\ lru' = IF key \in DOMAIN lru.cache THEN unpin(lru, key) ELSE lru
    /\ lru_last' = [call |-> "unpin", key |-> key,
                    raised |-> key \notin DOMAIN lru.cache]
    /\ lru_pinned' = (lru_pinned /\ key # PinnedKey)
    /\ UNCHANGED <<lockVars, txnVars, pageVars, treeVars, heapVars, planVars, ixVars, redoVars>>

(***************************************************************************)
(* Records and slotted pages (src/storage/common.py, slotted_page.py).     *)
(* A Python value is [base, w]: the tuple named base (or the empty bytes   *)
(* b''), pickled w times; w = 0 is the object itself.                      *)
(***************************************************************************)
PAGE_SIZE == 8 * 1024
HeaderSize == 5 * 8
SlotSize == 3 * 8

Tup(id) == [base |-> id, w |-> 0]
EmptyTuple == Tup("()")
EmptyBytes == Tup("b''")

\* len(pickle.dumps(t)) of the tuples used: a = (1, 2), L = (1, 'x' * 30),
\* H = (1, 'x' * 2700), G = (1, 'x' * 5000), c = (3, 4), e = (1, 3),
\* F = (1, 'x' * 8106)
TupleLen(id) ==
    CASE id = "a" -> 18 [] id = "L" -> 49 [] id = "H" -> 2722 [] id = "G" -> 5022
      [] id = "c" -> 18 [] id = "e" -> 18 [] id = "F" -> 8128
      [] OTHER -> 4

\* len of a bytes object; pickling a bytes object adds 15 bytes, 18 when the
\* object is longer than 255 bytes
BytesLen(b) ==
    IF b.base = "b''" THEN 15 * b.w
    ELSE TupleLen(b.base) + (IF TupleLen(b.base) > 255 THEN 18 ELSE 15) * (b.w - 1)

tuple_to_bytes(v) == [v EXCEPT !.w = @ + 1]

bytes_to_tuple(b) == IF BytesLen(b) = 0 THEN EmptyTuple ELSE [b EXCEPT !.w = @ - 1]

\* Python len() of what bytes_to_tuple returned
PyLen(v) == IF v.w = 0 THEN (IF v.base \in {"()", "b''"} THEN 0 ELSE 2)
            ELSE BytesLen(v)

\* Page(): the record region is kept per slot (slot.data is
\* records[offset : offset + length]) with its total size in records_size
Page == [lsn |-> 0, free_space_start |-> 0, free_space_end |-> 0,
         slot_directory |-> <<>>, records_size |-> 0]

NoSlot == [offset |-> 0, length |-> 0, state |-> "None", data |-> EmptyBytes]

allocate_slot(page, record) ==
    IF HeaderSize + (Len(page.slot_directory) + 1) * SlotSize
          + page.records_size + BytesLen(record) >= PAGE_SIZE
    THEN NoSlot
    ELSE [offset |-> page.records_size, length |-> BytesLen(record),
          state |-> "UNUSED", data |-> record]

\* mutant: free_space_start does not count the slot directory
set_header_stale(page, lsn) ==
    [page EXCEPT !.lsn = lsn,
                 !.free_space_start = HeaderSize,
                 !.free_space_end = PAGE_SIZE - page.records_size]

set_header(page, lsn) ==
    [page EXCEPT !.lsn = lsn,
                 !.free_space_start = HeaderSize + Len(page.slot_directory) * SlotSize,
                 !.free_space_end = PAGE_SIZE - page.records_size]

\* insert: the page, the returned sid, the exception raised ("" for none)
page_insert(page, record) ==
    LET slot == allocate_slot(page, record)
    IN  IF slot = NoSlot
        THEN [page |-> page, sid |-> -1, err |-> "PageError"]
        ELSE [page |-> [page EXCEPT
                           !.slot_directory = Append(@, [slot EXCEPT !.state = "NORMAL"]),
                           !.records_size = @ + BytesLen(record)],
              sid |-> Len(page.slot_directory),
              err |-> ""]

page_delete(page, sid) ==
    IF sid >= Len(page.slot_directory)
    THEN [page |-> page, err |-> "PageError"]
    ELSE [page |-> [page EXCEPT !.slot_directory[sid + 1].state = "DEAD"], err |-> ""]

page_select(page, sid) ==
    IF sid >= Len(page.slot_directory)
    THEN [bytes |-> EmptyBytes, err |-> "PageError"]
    ELSE IF page.slot_directory[sid + 1].state # "NORMAL"
    THEN [bytes |-> EmptyBytes, err |-> ""]
    ELSE [bytes |-> page.slot_directory[sid + 1].data, err |-> ""]

\* mutant: the page is not restored when the insert of the moved record fails
page_update_norestore(page, sid, record) ==
    IF sid >= Len(page.slot_directory)
    THEN [page |-> page, sid |-> -1, err |-> "IndexError"]
    ELSE IF BytesLen(record) <= page.slot_directory[sid + 1].length
    THEN [page |-> [page EXCEPT !.slot_directory[sid + 1].data = record,
                                !.slot_directory[sid + 1].length = BytesLen(record),
                                !.slot_directory[sid + 1].state = "NORMAL"],
          sid |-> sid, err |-> ""]
    ELSE LET d == page_delete(page, sid)
             i == page_insert(d.page, record)
         IN  IF i.err # ""
             THEN [page |-> i.page, sid |-> -1, err |-> i.err]
             ELSE i

\* mutant: the record is always moved to a new slot
page_update_move(page, sid, record) ==
    IF sid >= Len(page.slot_directory)
    THEN [page |-> page, sid |-> -1, err |-> "IndexError"]
    ELSE LET old_state == page.slot_directory[sid + 1].state
             d == page_delete(page, sid)
             i == page_insert(d.page, record)
         IN  IF i.err # ""
             THEN [page |-> [i.page EXCEPT !.slot_directory[sid + 1].state = old_state],
                   sid |-> -1, err |-> i.err]
             ELSE i

page_update(page, sid, record) ==
    IF sid >= Len(page.slot_directory)
    THEN [page |-> page, sid |-> -1, err |-> "IndexError"]
    ELSE IF BytesLen(record) <= page.slot_directory[sid + 1].length
    THEN [page |-> [page EXCEPT !.slot_directory[sid + 1].data = record,
                                !.slot_directory[sid + 1].length = BytesLen(record),
                                !.slot_directory[sid + 1].state = "NORMAL"],
          sid |-> sid, err |-> ""]
    ELSE LET old_state == page.slot_directory[sid + 1].state
             d == page_delete(page, sid)
             i == page_insert(d.page, record)
         IN  IF i.err # ""
             THEN [page |-> [i.page EXCEPT !.slot_directory[sid + 1].state = old_state],
                   sid |-> -1, err |-> i.err]
             ELSE i

\* serialize asserts that header, slots, free space and records add up to
\* PAGE_SIZE
serialize_ok(page) ==
    PAGE_SIZE = HeaderSize + Len(page.slot_directory) * SlotSize
                  + (page.free_space_end - page.free_space_start)
                  + page.records_size

\* Page.deserialize(page.serialize()): the slot directory is read up to the
\* header's free_space_start, the records from free_space_end on
deserialize(buff) ==
    LET n == (buff.free_space_start - HeaderSize) \div SlotSize
        m == IF n < 0 THEN 0
             ELSE IF n > Len(buff.slot_directory) THEN Len(buff.slot_directory)
             ELSE n
    IN  [buff EXCEPT !.slot_directory = SubSeq(@, 1, m),
                     !.records_size = PAGE_SIZE - buff.free_space_end]

(***************************************************************************)
(* One page under insert, delete, update, set_header and a write to disk   *)
(* followed by a read back.                                                *)
(***************************************************************************)
MaxSlots == 3

PageRecords == {tuple_to_bytes(Tup("a")), tuple_to_bytes(Tup("H"))}
\* the record that, with its slot, fills an empty page to the last byte
FillRecord == tuple_to_bytes(Tup("F"))
PageSids == 0..MaxSlots
PageLsns == {1, 2}

NoPageCall == [op |-> "none", sid |-> -1, record |-> EmptyBytes, ret |-> -1,
               err |-> ""]

InitPage == /\ pg = Page
            /\ pg_last = NoPageCall
            /\ pg_hist = <<>>

PageInsert(record) ==
    /\ Len(pg.slot_directory) < MaxSlots
    /\ LET r == page_insert(pg, record)
       IN  /\ pg' = r.page
           /\ pg_last' = [op |-> "insert", sid |-> -1, record |-> record,
                          ret |-> r.sid, err |-> r.err]
           /\ pg_hist' = IF r.err = "" THEN Append(pg_hist, record) ELSE pg_hist
    /\ UNCHANGED <<lockVars, lruVars, txnVars, treeVars, heapVars, planVars, ixVars, redoVars>>

PageDelete(sid) ==
    /\ LET r == page_delete(pg, sid)
       IN  /\ pg' = r.page
           /\ pg_last' = [op |-> "delete", sid |-> sid, record |-> EmptyBytes,
                          ret |-> -1, err |-> r.err]
    /\ UNCHANGED <<pg_hist, lockVars, lruVars, txnVars, treeVars, heapVars, planVars, ixVars, redoVars>>

PageUpdate(sid, record) ==
    /\ Len(pg.slot_directory) < MaxSlots
    /\ LET r == page_update(pg, sid, record)
       IN  /\ pg' = r.page
           /\ pg_last' = [op |-> "update", sid |-> sid, record |-> record,
                          ret |-> r.sid, err |-> r.err]
           /\ pg_hist' = IF r.err # "" THEN pg_hist
                         ELSE IF r.sid = sid THEN [pg_hist EXCEPT ![sid + 1] = record]
                         ELSE Append(pg_hist, record)
    /\ UNCHANGED <<lockVars, lruVars, txnVars, treeVars, heapVars, planVars, ixVars, redoVars>>

PageSetHeader(lsn) ==
    /\ pg' = set_header(pg, lsn)
    /\ pg_last' = [op |-> "set_header", sid |-> -1, record |-> EmptyBytes,
                   ret |-> -1, err |-> ""]
    /\ UNCHANGED <<pg_hist, lockVars, lruVars, txnVars, treeVars, heapVars, planVars, ixVars, redoVars>>

\* Page.deserialize(pg.serialize()); serialize raises AssertionError when the
\* header does not match the page
PageReload ==
    /\ pg' = IF serialize_ok(pg) THEN deserialize(pg) ELSE pg
    /\ pg_last' = [op |-> "reload", sid |-> -1, record |-> EmptyBytes, ret |-> -1,
                   err |-> IF serialize_ok(pg) THEN "" ELSE "AssertionError"]
    /\ UNCHANGED <<pg_hist, lockVars, lruVars, txnVars, treeVars, heapVars, planVars, ixVars, redoVars>>

(***************************************************************************)
(* The storage engine's state as one record d, threaded through the calls: *)
(*   bp, redo, undo, current_xid   the process's memory                    *)
(*   redo_file, undo_files, tbl    the files                               *)
(*   err, ret                      the exception raised ("" for none) and  *)
(*                                 the value returned by the last call     *)
(***************************************************************************)
REDOLOG_BUFFER_SIZE == 10
INVALID_XID == -1

Tables == {"t"}
None == "None"
NoLocation == <<>>

Raise(d, e) == [d EXCEPT !.err = e]

Return(d, v) == [d EXCEPT !.ret = v]

\* the call F made in state e unless an exception is already on its way up
Try(e, F(_)) == Let(e, LAMBDA d : IF d.err # "" THEN d ELSE F(d))

Max(S) == CHOOSE x \in S : \A y \in S : y <= x

Reverse(s) == [i \in 1..Len(s) |-> s[Len(s) + 1 - i]]

(***************************************************************************)
(* B+ tree index (src/storage/bplus_tree.py).  The key BPlusTreeTuple((k,))*)
(* is the integer k, float('-inf') and float('inf') are NegInf and PosInf, *)
(* the key None of an internal page's last entry is NoneKey.  The node     *)
(* objects live in t.nodes and a node is named by its index there (NoNode  *)
(* is None), so two objects with the same pageno stay two objects.  The    *)
(* tree is threaded through the calls as t, with the index file, the       *)
(* exception raised and the value returned:                                *)
(*   nodes, root, node_count    the BPlusTree object                       *)
(*   file                       exists, root pageno, one page per node     *)
(***************************************************************************)
\* 0xffffffff in the source, above every page number; the largest integer of
\* the model checker stands for it
INVALID_PAGENO == 2147483647
NoNode == 0
NoneKey == 0
NegInf == -1
PosInf == 1000

Min(S) == CHOOSE x \in S : \A y \in S : x <= y

IsFloat(x) == x \in {NegInf, PosInf}

__eq__(self, other) == ~IsFloat(other) /\ self = other

__lt__(self, other) ==
    IF other = PosInf THEN TRUE
    ELSE IF other = NegInf THEN FALSE
    ELSE self < other

__le__(self, other) == __eq__(self, other) \/ __lt__(self, other)

__ge__(self, other) == __eq__(self, other) \/ ~__lt__(self, other)

__gt__(self, other) == ~__eq__(self, other) /\ ~__lt__(self, other)

\* a <= b and a < b as Python evaluates them: a float on the left hands the
\* comparison over to the reflected method of the BPlusTreeTuple on the right
PyLe(a, b) == IF IsFloat(a) THEN __ge__(b, a) ELSE __le__(a, b)

PyLt(a, b) == IF IsFloat(a) THEN __gt__(b, a) ELSE __lt__(a, b)

\* list.insert(i, x), i counted from 0
InsertAt(s, i, x) ==
    LET j == IF i > Len(s) THEN Len(s) ELSE i
    IN  SubSeq(s, 1, j) \o <<x>> \o SubSeq(s, j + 1, Len(s))

\* s[:n] and s[n:]
Take(s, n) == SubSeq(s, 1, IF n > Len(s) THEN Len(s) ELSE n)

Drop(s, n) == SubSeq(s, n + 1, Len(s))

\* the elements of s at the positions in keep, in order
FilterIdx(s, keep) ==
    LET F[i \in 0..Len(s)] ==
            IF i = 0 THEN <<>>
            ELSE IF i \in keep THEN Append(F[i - 1], s[i]) ELSE F[i - 1]
    IN  F[Len(s)]

\* tuple(a) < tuple(b)
TupleLess(a, b) ==
    LET n == IF Len(a) < Len(b) THEN Len(a) ELSE Len(b)
        D == {i \in 1..n : a[i] # b[i]}
    IN  IF D = {} THEN Len(a) < Len(b) ELSE a[Min(D)] < b[Min(D)]

BPlusTreeNode(is_leaf) ==
    [is_leaf |-> is_leaf, keys |-> <<>>, children |-> <<>>, values |-> <<>>,
     loaded |-> FALSE, pageno |-> INVALID_PAGENO, next_leaf |-> NoNode]

\* node = BPlusTreeNode(); node.pageno = pageno
Placeholder(pageno) == [BPlusTreeNode(TRUE) EXCEPT !.pageno = pageno]

NoFile == [exists |-> FALSE, root |-> 0, pages |-> <<>>]

get_child(node, i) ==
    IF i >= Len(node.children) THEN node.next_leaf ELSE node.children[i + 1]

\* to_page: flags, reserved and one slot (k, v) per entry
to_page(t, oid) ==
    LET node == t.nodes[oid]
    IN  IF node.is_leaf
        THEN [flags |-> 1,
              reserved |-> IF node.next_leaf # NoNode
                           THEN t.nodes[node.next_leaf].pageno ELSE INVALID_PAGENO,
              slots |-> [i \in 1..Len(node.keys) |-> <<node.keys[i], node.values[i]>>]]
        ELSE [flags |-> 0,
              reserved |-> 0,
              slots |-> [i \in 1..Len(node.keys) |->
                            <<node.keys[i], t.nodes[node.children[i]].pageno>>]
                        \o (IF Len(node.children) > Len(node.keys)
                            THEN <<<<NoneKey,
                                     t.nodes[node.children[Len(node.children)]].pageno>>>>
                            ELSE <<>>)]

\* from_page: the node oid takes the page's entries; its next leaf and its
\* children are new unloaded node objects that carry a pageno only
from_page(t, oid, page) ==
    LET n == Len(t.nodes)
    IN  IF page.flags = 1
        THEN LET has_next == page.reserved < INVALID_PAGENO
             IN  [t EXCEPT
                    !.nodes = [@ EXCEPT
                        ![oid].loaded = TRUE,
                        ![oid].is_leaf = TRUE,
                        ![oid].next_leaf = IF has_next THEN n + 1 ELSE @,
                        ![oid].keys = @ \o [i \in 1..Len(page.slots) |-> page.slots[i][1]],
                        ![oid].values = @ \o [i \in 1..Len(page.slots) |-> page.slots[i][2]]]
                      \o (IF has_next THEN <<Placeholder(page.reserved)>> ELSE <<>>)]
        ELSE [t EXCEPT
                !.nodes = [@ EXCEPT
                    ![oid].loaded = TRUE,
                    ![oid].is_leaf = FALSE,
                    ![oid].keys = @ \o SelectSeq(
                                     [i \in 1..Len(page.slots) |-> page.slots[i][1]],
                                     LAMBDA k : k # NoneKey),
                    ![oid].children = @ \o [i \in 1..Len(page.slots) |-> n + i]]
                  \o [i \in 1..Len(page.slots) |-> Placeholder(page.slots[i][2])]]

\* load_page_from_disk: a missing file and a read past the end of the file
\* raise
load_page_from_disk(t, pageno) ==
    IF ~t.file.exists THEN Raise(t, "FileNotFoundError")
    ELSE IF pageno >= Len(t.file.pages) THEN Raise(t, "AssertionError")
    ELSE Return(t, t.file.pages[pageno + 1])

load_node(t, oid) ==
    IF oid = NoNode THEN Return(t, NoNode)
    ELSE IF t.nodes[oid].loaded THEN Return(t, oid)
    ELSE Try(load_page_from_disk(t, t.nodes[oid].pageno), LAMBDA t1 :
             Return(from_page(t1, oid, t1.ret), oid))

\* BPlusTree(filename): a new tree with one empty leaf
allocate_node(t, is_leaf) ==
    Return([t EXCEPT !.nodes = Append(@, [BPlusTreeNode(is_leaf) EXCEPT
                                             !.pageno = t.node_count,
                                             !.loaded = TRUE]),
                     !.node_count = @ + 1],
           Len(t.nodes) + 1)

BPlusTree(file) ==
    Let(allocate_node([nodes |-> <<>>, root |-> NoNode, node_count |-> 0,
                       file |-> file, err |-> "", ret |-> None], TRUE),
        LAMBDA t : Return([t EXCEPT !.root = t.ret], None))

_need_split(node) == Len(node.keys) > 10

_find_rightmost_key_index(keys, key) ==
    LET S == {i \in 1..Len(keys) : ~PyLe(keys[i], key)}
    IN  IF S = {} THEN Len(keys) ELSE Min(S) - 1

_find_leftmost_key_index(keys, key) ==
    LET S == {i \in 1..Len(keys) : PyLe(key, keys[i])}
    IN  IF S = {} THEN Len(keys) ELSE Min(S) - 1

\* target in children: BPlusTreeNode.__eq__ compares the pageno
NodeIn(t, target, children) ==
    \E i \in DOMAIN children : t.nodes[children[i]].pageno = t.nodes[target].pageno

RECURSIVE _find_parent(_, _, _)
_find_parent(t, current, target) ==
    IF t.nodes[current].is_leaf \/ NodeIn(t, target, t.nodes[current].children)
    THEN current
    ELSE LET ch == t.nodes[current].children
             S == {i \in DOMAIN ch : NodeIn(t, target, t.nodes[ch[i]].children)}
         IN  IF S = {} THEN NoNode ELSE _find_parent(t, ch[Min(S)], target)

\* find_leaf_node, first loop: down from the root while the node is not a leaf
RECURSIVE find_leaf_node_descend(_, _, _)
find_leaf_node_descend(t, oid, key) ==
    IF oid = NoNode \/ t.nodes[oid].is_leaf THEN Return(t, oid)
    ELSE Try(load_node(t, oid), LAMBDA t1 :
         Let(t1.nodes[oid], LAMBDA node :
         Let(_find_leftmost_key_index(node.keys, key), LAMBDA index :
             IF index >= Len(node.keys)
             THEN IF node.children = <<>> THEN Raise(t1, "IndexError")
                  ELSE find_leaf_node_descend(t1, node.children[Len(node.children)], key)
             ELSE find_leaf_node_descend(t1, get_child(node, index), key))))

\* find_leaf_node, second loop: right along the leaves while the leaf has
\* keys, its last key is below the key and it has a next leaf
RECURSIVE find_leaf_node_walk(_, _, _)
find_leaf_node_walk(t, oid, key) ==
    Let(t.nodes[oid], LAMBDA node :
        IF /\ node.keys # <<>>
           /\ __lt__(node.keys[Len(node.keys)], key)
           /\ node.next_leaf # NoNode
        THEN Try(load_node(t, node.next_leaf), LAMBDA t1 :
                 find_leaf_node_walk(t1, node.next_leaf, key))
        ELSE Return(t, oid))

find_leaf_node(t, key) ==
    Try(find_leaf_node_descend(t, t.root, key), LAMBDA t1 :
        IF t1.ret = NoNode THEN Raise(t1, "AttributeError")
        ELSE find_leaf_node_walk(t1, t1.ret, key))

RECURSIVE _split(_, _)
_split(t0, oid) ==
    Let(t0.nodes[oid], LAMBDA node :
    Let(Len(node.keys) \div 2, LAMBDA middle_index :
    Let(allocate_node(t0, node.is_leaf), LAMBDA t1 :
    Let(t1.ret, LAMBDA right :
    Let([t1 EXCEPT !.nodes[right].keys = Drop(node.keys, middle_index),
                   !.nodes[right].children = Drop(node.children, middle_index),
                   !.nodes[right].values = Drop(node.values, middle_index),
                   !.nodes[right].next_leaf = node.next_leaf,
                   !.nodes[oid].keys = Take(node.keys, middle_index),
                   !.nodes[oid].children = Take(node.children, middle_index),
                   !.nodes[oid].values = Take(node.values, middle_index),
                   !.nodes[oid].next_leaf = right], LAMBDA t2 :
        IF t2.nodes[oid].keys = <<>> \/ t2.nodes[right].keys = <<>>
        THEN Raise(t2, "AssertionError")
        ELSE IF ~TupleLess(t2.nodes[oid].keys, t2.nodes[right].keys)
        THEN Raise(t2, "AssertionError")
        ELSE IF oid = t2.root
        THEN Let(allocate_node(t2, FALSE), LAMBDA t3 :
                 Return([t3 EXCEPT !.nodes[t3.ret].keys = <<t2.nodes[right].keys[1]>>,
                                   !.nodes[t3.ret].children = <<oid, right>>,
                                   !.root = t3.ret], None))
        ELSE Let(_find_parent(t2, t2.root, oid), LAMBDA parent :
             IF parent = NoNode THEN Raise(t2, "AttributeError")
             ELSE IF ~NodeIn(t2, oid, t2.nodes[parent].children)
             THEN Raise(t2, "ValueError")
             ELSE Let(Min({i \in DOMAIN t2.nodes[parent].children :
                              t2.nodes[t2.nodes[parent].children[i]].pageno
                                  = t2.nodes[oid].pageno}) - 1, LAMBDA index :
                  Let([t2 EXCEPT
                          !.nodes[parent].keys =
                              InsertAt(@, index, t2.nodes[right].keys[1]),
                          !.nodes[parent].children = InsertAt(@, index + 1, right)],
                      LAMBDA t3 :
                          IF _need_split(t3.nodes[parent]) THEN _split(t3, parent)
                          ELSE Return(t3, None)))))))))

tree_insert(t0, key, value) ==
    IF key = NoneKey THEN Raise(t0, "BPlusTreeError")
    ELSE Try(find_leaf_node(t0, key), LAMBDA t :
         Let(t.ret, LAMBDA oid :
         Let(_find_rightmost_key_index(t.nodes[oid].keys, key), LAMBDA index :
         Let([t EXCEPT !.nodes[oid].keys = InsertAt(@, index, key),
                       !.nodes[oid].values = InsertAt(@, index, value)], LAMBDA t1 :
             IF _need_split(t1.nodes[oid]) THEN _split(t1, oid)
             ELSE Return(t1, None)))))

\* _find_indexes: the positions of key before the first larger key
_find_indexes(keys, key) ==
    {i \in 1..Len(keys) :
        /\ __eq__(key, keys[i])
        /\ \A j \in 1..(i - 1) : __eq__(key, keys[j]) \/ ~__gt__(keys[j], key)}

RECURSIVE delete_loop(_, _, _, _)
delete_loop(t, oid, key, value) ==
    IF oid = NoNode THEN Return(t, None)
    ELSE Let(t.nodes[oid], LAMBDA node :
         Let(_find_indexes(node.keys, key), LAMBDA indexes :
             IF indexes = {} THEN Return(t, None)
             ELSE Let({i \in 1..Len(node.keys) :
                          ~(i \in indexes /\ (value = None \/ node.values[i] = value))},
                      LAMBDA keep :
                  Try(load_node([t EXCEPT
                                    !.nodes[oid].keys = FilterIdx(@, keep),
                                    !.nodes[oid].values = FilterIdx(@, keep)],
                                node.next_leaf),
                      LAMBDA t1 : delete_loop(t1, t1.ret, key, value)))))

tree_delete(t0, key, value) ==
    Try(find_leaf_node(t0, key), LAMBDA t : delete_loop(t, t.ret, key, value))

RECURSIVE find_loop(_, _, _, _)
find_loop(t, oid, key, values) ==
    IF oid = NoNode THEN Return(t, values)
    ELSE Let(t.nodes[oid], LAMBDA node :
         Let(_find_indexes(node.keys, key), LAMBDA indexes :
             IF indexes = {} THEN Return(t, values)
             ELSE Try(load_node(t, node.next_leaf), LAMBDA t1 :
                      find_loop(t1, t1.ret, key,
                                values \o FilterIdx(node.values, indexes)))))

tree_find(t0, key) ==
    Try(find_leaf_node(t0, key), LAMBDA t : find_loop(t, t.ret, key, <<>>))

RECURSIVE find_range_loop(_, _, _, _, _, _)
find_range_loop(t, oid, start, end, return_keys, values) ==
    IF oid = NoNode THEN Return(t, values)
    ELSE Let(t.nodes[oid], LAMBDA node :
         Let({i \in 1..Len(node.keys) :
                 /\ \A j \in 1..i : ~__ge__(node.keys[j], end)
                 /\ PyLt(start, node.keys[i])
                 /\ __lt__(node.keys[i], end)}, LAMBDA hits :
             Try(load_node(t, node.next_leaf), LAMBDA t1 :
                 find_range_loop(t1, t1.ret, start, end, return_keys,
                                 values \o FilterIdx(IF return_keys THEN node.keys
                                                     ELSE node.values, hits)))))

tree_find_range(t0, start, end, return_keys) ==
    Try(find_leaf_node(t0, start), LAMBDA t :
        find_range_loop(t, t.ret, start, end, return_keys, <<>>))

\* serialize, the walk over node.children from the root
RECURSIVE serialize_nodes(_, _, _)
serialize_nodes(t, queue, nodes) ==
    IF queue = <<>> THEN nodes
    ELSE serialize_nodes(t,
                         Tail(queue) \o (IF t.nodes[Head(queue)].is_leaf THEN <<>>
                                         ELSE t.nodes[Head(queue)].children),
                         Append(nodes, Head(queue)))

\* serialize: the nodes sorted by pageno must be numbered 0, 1, 2, ...; the
\* file is rewritten with the root's pageno and one page per node
tree_serialize(t) ==
    Let(serialize_nodes(t, <<t.root>>, <<>>), LAMBDA nodes :
        IF \E p \in 0..(Len(nodes) - 1) :
              Cardinality({i \in DOMAIN nodes : t.nodes[nodes[i]].pageno = p}) # 1
        THEN Raise(t, "AssertionError")
        ELSE Return([t EXCEPT !.file =
                        [exists |-> TRUE,
                         root |-> t.nodes[t.root].pageno,
                         pages |-> [p \in 1..Len(nodes) |->
                                       to_page(t, nodes[CHOOSE i \in DOMAIN nodes :
                                                   t.nodes[nodes[i]].pageno = p - 1])]]],
                    None))

\* load_root_node
load_root_node(file) ==
    Let([nodes |-> <<Placeholder(file.root)>>, root |-> 1,
         node_count |-> Len(file.pages), file |-> file, err |-> "", ret |-> None],
        LAMBDA t :
            IF ~file.exists THEN Raise(t, "BPlusTreeError")
            ELSE Try(load_page_from_disk(t, file.root), LAMBDA t1 :
                     Return(from_page(t1, 1, t1.ret), None)))

\* BPlusTree.deserialize(filename): BPlusTree(filename, load_root_node(filename))
tree_deserialize(file) ==
    IF ~file.exists THEN Raise(load_root_node(file), "FileNotFoundError")
    ELSE load_root_node(file)

\* index_tuple_create: a new tree, one insert per row of the table, serialize
RECURSIVE index_tuple_create_rows(_, _)
index_tuple_create_rows(t, rows) ==
    IF rows = <<>> THEN t
    ELSE Try(tree_insert(t, rows[1][1], rows[1][2]), LAMBDA t1 :
             index_tuple_create_rows(t1, Tail(rows)))

index_tuple_create(rows) ==
    Try(index_tuple_create_rows(BPlusTree(NoFile), rows), LAMBDA t : tree_serialize(t))

(***************************************************************************)
(* Redo log (src/storage/transaction/redo.py)                              *)
(***************************************************************************)
RedoRecord(xid, action, relation, location, data) ==
    [xid |-> xid, action |-> action, relation |-> relation,
     location |-> location, data |-> data]

\* len(record) = 8 + len(pickle.dumps((xid, action, relation, location, data)))
\* for a one-letter relation name and small integers; data longer than 255
\* bytes is pickled with a four-byte length, three bytes more
RecordLen(r) ==
    IF r.relation = None THEN (IF r.xid < 0 THEN 35 ELSE 32)
    ELSE 40 + BytesLen(r.data) + (IF BytesLen(r.data) > 255 THEN 3 ELSE 0)

RECURSIVE TotalLen(_)
TotalLen(s) == IF s = <<>> THEN 0 ELSE RecordLen(Head(s)) + TotalLen(Tail(s))

RedoLogManager == [log_buffer |-> <<>>, write_lsn |-> 0, flush_lsn |-> 0]

redo_flush(d0) ==
    Let(d0, LAMBDA d :
        [d EXCEPT !.redo_file = @ \o d.redo.log_buffer,
                  !.redo.flush_lsn = @ + TotalLen(d.redo.log_buffer),
                  !.redo.log_buffer = <<>>])

\* mutant: a COMMIT record does not force the flush
redo_write_lazy(d0, record) ==
    Try(d0, LAMBDA d :
        Let([d EXCEPT !.redo.log_buffer = Append(@, record),
                      !.redo.write_lsn = @ + RecordLen(record)], LAMBDA d1 :
            Let(IF Len(d1.redo.log_buffer) > REDOLOG_BUFFER_SIZE
                THEN redo_flush(d1) ELSE d1, LAMBDA d2 :
                Return(d2, d2.redo.write_lsn))))

\* RedoLogManager.write: returns the new write_lsn
redo_write(d0, record) ==
    Try(d0, LAMBDA d :
        Let([d EXCEPT !.redo.log_buffer = Append(@, record),
                      !.redo.write_lsn = @ + RecordLen(record)], LAMBDA d1 :
            Let(IF record.action = "COMMIT"
                   \/ Len(d1.redo.log_buffer) > REDOLOG_BUFFER_SIZE
                THEN redo_flush(d1) ELSE d1, LAMBDA d2 :
                Return(d2, d2.redo.write_lsn))))

\* replay(start_lsn): the records of the file from byte offset start_lsn on
\* (start_lsn is 0 or the end of a record)
replay(file, start_lsn) ==
    LET K == {k \in 0..Len(file) : TotalLen(SubSeq(file, 1, k)) = start_lsn}
    IN  IF K = {} THEN <<>> ELSE SubSeq(file, Max(K) + 1, Len(file))

(***************************************************************************)
(* Undo log (src/storage/transaction/undo.py)                              *)
(***************************************************************************)
UndoRecord(xid, operation, relation, location, data) ==
    [xid |-> xid, operation |-> operation, relation |-> relation,
     location |-> location, data |-> data]

undo_write(d0, record) ==
    Try(d0, LAMBDA d :
        IF record.xid \notin DOMAIN d.undo THEN Raise(d, "AssertionError")
        ELSE [d EXCEPT !.undo[record.xid] = Append(@, record)])

\* flush: open(filename, 'ab') creates the file before the records are read
undo_flush(d0, xid) ==
    Try(d0, LAMBDA d :
        LET old == IF xid \in DOMAIN d.undo_files THEN d.undo_files[xid] ELSE <<>>
        IN  IF xid \notin DOMAIN d.undo
            THEN Raise([d EXCEPT !.undo_files = DictSet(@, xid, old)], "KeyError")
            ELSE [d EXCEPT !.undo_files = DictSet(@, xid, old \o d.undo[xid]),
                           !.undo[xid] = <<>>])

undo_start_transaction(d, xid) ==
    [d EXCEPT !.undo = DictSet(@, xid,
                  <<UndoRecord(xid, "BEGIN", None, NoLocation, EmptyBytes)>>)]

undo_commit_transaction(d0, xid) ==
    Try(undo_flush(undo_write(d0, UndoRecord(xid, "COMMIT", None, NoLocation,
                                             EmptyBytes)), xid),
        LAMBDA d1 : [d1 EXCEPT !.undo = DictDel(@, xid)])

undo_abort_transaction(d0, xid) ==
    Try(undo_flush(undo_write(d0, UndoRecord(xid, "ABORT", None, NoLocation,
                                             EmptyBytes)), xid),
        LAMBDA d1 : [d1 EXCEPT !.undo = DictDel(@, xid)])

\* parse_record: the records of undo/<xid>, last first
parse_record(d, xid) == Reverse(d.undo_files[xid])

(***************************************************************************)
(* Buffer pool and page access (src/storage/lru.py, common.py)             *)
(***************************************************************************)
\* BufferPool(buffer_size)
BufferPoolOf(buffer_size) == [lru_cache |-> LRUCache(buffer_size), dirty_pages |-> {}]

\* the module's pool: buffer_pool = BufferPool()
BufferPool == BufferPoolOf(LRU_CAPACITY)

InCache(d, key) == key \in DOMAIN d.bp.lru_cache.cache

PageOf(d, key) == d.bp.lru_cache.cache[key].value

\* a method of the cached Page object changed it in place
SetPage(d, key, page) == [d EXCEPT !.bp.lru_cache.cache[key].value = page]

mark_dirty(d0, key) ==
    Try(d0, LAMBDA d :
        IF ~InCache(d, key) THEN Raise(d, "AssertionError")
        ELSE [d EXCEPT !.bp.dirty_pages = @ \cup {key}])

unmark_dirty(d, key) == [d EXCEPT !.bp.dirty_pages = @ \ {key}]

find_max_pageno(d, relation_name) ==
    LET S == {k[2] : k \in {x \in d.bp.dirty_pages : x[1] = relation_name}}
    IN  IF S = {} THEN -1 ELSE Max(S)

\* buffer_pool[key] = value
bp_setitem(d0, key, value) ==
    Let(d0, LAMBDA d :
        Let(put(d.bp.lru_cache, key, value), LAMBDA r :
            IF r.raised THEN Raise([d EXCEPT !.bp.lru_cache = r.lru], "LRUError")
            ELSE [d EXCEPT !.bp.lru_cache = r.lru]))

table_tuple_get_disk_pages(d, table_name) == Len(d.tbl[table_name])

table_tuple_get_pages(d0, table_name) ==
    Let(d0, LAMBDA d :
        LET m == find_max_pageno(d, table_name) + 1
            k == table_tuple_get_disk_pages(d, table_name)
        IN  IF m > k THEN m ELSE k)

\* table_tuple_get_page: afterwards the page is PageOf(d, <<table_name, pageno>>)
table_tuple_get_page(d0, table_name, pageno) ==
    LET key == <<table_name, pageno>>
    IN  Try(d0, LAMBDA d :
            Try(IF InCache(d, key) THEN d
                ELSE IF pageno < table_tuple_get_disk_pages(d, table_name)
                THEN bp_setitem(d, key, deserialize(d.tbl[table_name][pageno + 1]))
                ELSE mark_dirty(bp_setitem(d, key, Page), key),
                LAMBDA d1 :
                    IF ~InCache(d1, key) THEN Raise(d1, "AttributeError")
                    ELSE [d1 EXCEPT !.bp.lru_cache = get(@, key)]))

\* sync_table_page: the file is opened in append mode, so the page is written
\* at the end of the file whatever the seek; serialize asserts first
sync_table_page(d0, table_name, pageno, page) ==
    Try(d0, LAMBDA d :
        IF ~serialize_ok(page) THEN Raise(d, "AssertionError")
        ELSE [d EXCEPT !.tbl[table_name] = Append(@, page)])

(***************************************************************************)
(* Heap access (src/storage/entry.py).  xid is session_xid() of the        *)
(* calling thread.                                                         *)
(***************************************************************************)
table_tuple_get_last_pageno(d0, table_name) ==
    Let(table_tuple_get_pages(d0, table_name) - 1, LAMBDA n :
        IF n > 0 THEN n ELSE 0)

table_tuple_allocate_page(d0, table_name) ==
    Try(d0, LAMBDA d :
        Let(table_tuple_get_last_pageno(d, table_name), LAMBDA pageno :
            Try(table_tuple_get_page(d, table_name, pageno), LAMBDA d1 :
                IF table_tuple_get_last_pageno(d1, table_name) # pageno + 1
                THEN Raise(d1, "AssertionError")
                ELSE Return(d1, pageno + 1))))

\* table_tuple_get_one: returns the tuple at the location, () for a dead one
table_tuple_get_one(d0, table_name, location) ==
    Try(table_tuple_get_page(d0, table_name, location[1]), LAMBDA d1 :
        Let(page_select(PageOf(d1, <<table_name, location[1]>>), location[2]),
            LAMBDA s :
                IF s.err # "" THEN Raise(d1, s.err)
                ELSE Return(d1, bytes_to_tuple(s.bytes))))

\* the write of both log records and the stamp of the page header that end
\* every mutation: stamped is the page whose header gets the lsn
log_and_stamp(d0, undo_record, redo_record, stamped) ==
    Try(redo_write(undo_write(d0, undo_record), redo_record), LAMBDA d1 :
        SetPage(d1, stamped, set_header(PageOf(d1, stamped), d1.ret)))

\* table_tuple_insert_one, `except PageError`: the tuple goes to a new page;
\* the header stamped and the page number returned are those of the full page
insert_on_new_page(d0, xid, table_name, tup, pageno) ==
    Try(table_tuple_allocate_page(d0, table_name), LAMBDA a :
        Try(table_tuple_get_page(a, table_name, a.ret), LAMBDA b :
            Let(page_insert(PageOf(b, <<table_name, a.ret>>), tuple_to_bytes(tup)),
                LAMBDA r :
                    IF r.err # "" THEN Raise(b, r.err)
                    ELSE Try(log_and_stamp(
                                mark_dirty(SetPage(b, <<table_name, a.ret>>, r.page),
                                           <<table_name, a.ret>>),
                                UndoRecord(xid, "TABLE_DELETE", table_name,
                                           <<a.ret, r.sid>>, EmptyBytes),
                                RedoRecord(xid, "TABLE_INSERT", table_name,
                                           <<a.ret, r.sid>>, tuple_to_bytes(tup)),
                                <<table_name, pageno>>),
                             LAMBDA b2 : Return(b2, <<pageno, r.sid>>)))))

\* table_tuple_insert_one: returns the location (pageno, sid)
table_tuple_insert_one(d0, xid, table_name, tup) ==
    Try(d0, LAMBDA d :
        Let(table_tuple_get_last_pageno(d, table_name), LAMBDA pageno :
            Try(table_tuple_get_page(d, table_name, pageno), LAMBDA d1 :
                Let(page_insert(PageOf(d1, <<table_name, pageno>>),
                                tuple_to_bytes(tup)),
                    LAMBDA r :
                        IF r.err # ""
                        THEN insert_on_new_page(d1, xid, table_name, tup, pageno)
                        ELSE Try(log_and_stamp(
                                    mark_dirty(SetPage(d1, <<table_name, pageno>>,
                                                       r.page),
                                               <<table_name, pageno>>),
                                    UndoRecord(xid, "TABLE_DELETE", table_name,
                                               <<pageno, r.sid>>, EmptyBytes),
                                    RedoRecord(xid, "TABLE_INSERT", table_name,
                                               <<pageno, r.sid>>, tuple_to_bytes(tup)),
                                    <<table_name, pageno>>),
                                 LAMBDA d2 : Return(d2, <<pageno, r.sid>>))))))

table_tuple_delete_one(d0, xid, table_name, location) ==
    LET key == <<table_name, location[1]>>
    IN  Try(table_tuple_get_one(table_tuple_get_page(d0, table_name, location[1]),
                                table_name, location),
            LAMBDA d1 :
                Let(page_delete(PageOf(d1, key), location[2]), LAMBDA r :
                    IF r.err # "" THEN Raise(d1, r.err)
                    ELSE log_and_stamp(
                            mark_dirty(SetPage(d1, key, r.page), key),
                            UndoRecord(xid, "TABLE_INSERT", table_name, location,
                                       tuple_to_bytes(d1.ret)),
                            RedoRecord(xid, "TABLE_DELETE", table_name, location,
                                       EmptyBytes),
                            key)))

\* table_tuple_update_one: returns the new sid, or what table_tuple_insert_one
\* returned on the delete-then-insert path.  The undo record holds
\* tuple_to_bytes of the bytes page.select returned.
table_tuple_update_one(d0, xid, table_name, location, tup) ==
    LET pageno == location[1]
        sid == location[2]
        key == <<table_name, location[1]>>
    IN  Try(table_tuple_get_page(d0, table_name, pageno), LAMBDA d1 :
            Let(page_select(PageOf(d1, key), sid), LAMBDA s :
                IF s.err # "" THEN Raise(d1, s.err)
                ELSE
                Let(page_update(PageOf(d1, key), sid, tuple_to_bytes(tup)), LAMBDA u :
                    IF u.err = "PageError"
                    THEN table_tuple_insert_one(
                            table_tuple_delete_one(d1, xid, table_name, location),
                            xid, table_name, tup)
                    ELSE IF u.err # "" THEN Raise(d1, u.err)
                    ELSE Try(log_and_stamp(
                                mark_dirty(SetPage(d1, key, u.page), key),
                                UndoRecord(xid, "TABLE_UPDATE", table_name,
                                           <<pageno, sid>>, tuple_to_bytes(s.bytes)),
                                RedoRecord(xid, "TABLE_UPDATE", table_name,
                                           <<pageno, u.sid>>, tuple_to_bytes(tup)),
                                key),
                             LAMBDA d2 : Return(d2, u.sid)))))

\* the tuples of a scan, in location order: table_tuple_get_all over
\* table_tuple_get_all_locations, which skips the dead tuples
PeekPage(d, table_name, pageno) ==
    IF InCache(d, <<table_name, pageno>>) THEN PageOf(d, <<table_name, pageno>>)
    ELSE IF pageno < table_tuple_get_disk_pages(d, table_name)
    THEN deserialize(d.tbl[table_name][pageno + 1])
    ELSE Page

PeekOne(d, table_name, location) ==
    bytes_to_tuple(page_select(PeekPage(d, table_name, location[1]), location[2]).bytes)

table_tuple_is_dead(d, table_name, location) ==
    PyLen(PeekOne(d, table_name, location)) = 0

RECURSIVE table_tuple_get_all_locations(_, _, _, _)
table_tuple_get_all_locations(d, table_name, pageno, sid) ==
    IF pageno >= table_tuple_get_pages(d, table_name) THEN <<>>
    ELSE IF sid >= Len(PeekPage(d, table_name, pageno).slot_directory)
    THEN table_tuple_get_all_locations(d, table_name, pageno + 1, 0)
    ELSE (IF table_tuple_is_dead(d, table_name, <<pageno, sid>>) THEN <<>>
          ELSE << <<pageno, sid>> >>)
         \o table_tuple_get_all_locations(d, table_name, pageno, sid + 1)

table_tuple_get_all(d, table_name) ==
    Let(table_tuple_get_all_locations(d, table_name, 0, 0), LAMBDA locs :
        [i \in 1..Len(locs) |-> PeekOne(d, table_name, locs[i])])

(***************************************************************************)
(* Index access (src/storage/entry.py).  The engine has one index, ix, on  *)
(* the first column of the table; its file is d.idx.  A key is passed as   *)
(* the tuple (k,), the integer k here.  The value of an index entry is a   *)
(* location; in the tree it is kept in its written form, LocStr.           *)
(***************************************************************************)
IndexName == "ix"

LocNames == <<"(0, 0)", "(0, 1)", "(0, 2)", "(0, 3)", "(0, 4)", "(0, 5)",
              "(0, 6)", "(0, 7)", "(0, 8)", "(0, 9)", "(0, 10)", "(0, 11)">>

LocStr(location) ==
    IF location = NoLocation THEN None ELSE LocNames[location[2] + 1]

StrLoc(str) == <<0, (CHOOSE i \in DOMAIN LocNames : LocNames[i] = str) - 1>>

\* tree = BPlusTree(filename, load_root_node(filename)); F(tree);
\* tree.serialize()
IndexCall(d0, F(_)) ==
    Try(d0, LAMBDA d :
        Let(Try(Try(load_root_node(d.idx), F), tree_serialize), LAMBDA t :
            IF t.err # "" THEN Raise(d, t.err)
            ELSE [d EXCEPT !.idx = t.file]))

index_tuple_insert_one(d0, xid, key, value) ==
    Try(d0, LAMBDA d :
        Let(Try(load_root_node(d.idx),
                LAMBDA t : tree_insert(t, key, LocStr(value))), LAMBDA t1 :
            IF t1.err # "" THEN Raise(d, t1.err)
            ELSE Try(undo_write(d, UndoRecord(xid, "INDEX_DELETE", IndexName,
                                              value, key)), LAMBDA d1 :
                 Let(tree_serialize(t1), LAMBDA t2 :
                     IF t2.err # "" THEN Raise(d1, t2.err)
                     ELSE [d1 EXCEPT !.idx = t2.file]))))

\* one INDEX_INSERT undo record per location tree.find(key) returned
RECURSIVE index_undo_writes(_, _, _, _)
index_undo_writes(d0, xid, key, old_locations) ==
    Try(d0, LAMBDA d :
        IF old_locations = <<>> THEN d
        ELSE index_undo_writes(
                 undo_write(d, UndoRecord(xid, "INDEX_INSERT", IndexName,
                                          StrLoc(Head(old_locations)), key)),
                 xid, key, Tail(old_locations)))

index_tuple_delete_one(d0, xid, key, location) ==
    Try(d0, LAMBDA d :
        Let(Try(load_root_node(d.idx), LAMBDA t : tree_find(t, key)), LAMBDA t1 :
            IF t1.err # "" THEN Raise(d, t1.err)
            ELSE Let(tree_delete(t1, key, LocStr(location)), LAMBDA t2 :
                 IF t2.err # "" THEN Raise(d, t2.err)
                 ELSE Try(index_undo_writes(d, xid, key, t1.ret), LAMBDA d1 :
                      Let(tree_serialize(t2), LAMBDA t3 :
                          IF t3.err # "" THEN Raise(d1, t3.err)
                          ELSE [d1 EXCEPT !.idx = t3.file])))))

(***************************************************************************)
(* Transaction manager (src/storage/transaction/entry.py)                  *)
(***************************************************************************)
\* one undo record applied by perform_undo
undo_one(d0, undo_record, lsn) ==
    LET pageno == undo_record.location[1]
        sid == undo_record.location[2]
        key == <<undo_record.relation, undo_record.location[1]>>
    IN  Try(d0, LAMBDA d :
            IF undo_record.operation = "INDEX_INSERT"
            THEN IndexCall(d, LAMBDA t :
                     tree_insert(t, undo_record.data, LocStr(undo_record.location)))
            ELSE IF undo_record.operation = "INDEX_DELETE"
            THEN IndexCall(d, LAMBDA t :
                     tree_delete(t, undo_record.data, LocStr(undo_record.location)))
            ELSE IF undo_record.operation \notin {"TABLE_DELETE", "TABLE_INSERT",
                                                  "TABLE_UPDATE"}
            THEN d
            ELSE
            Try(table_tuple_get_page(d, undo_record.relation, pageno), LAMBDA d1 :
                Let(CASE undo_record.operation = "TABLE_DELETE" ->
                             page_delete(PageOf(d1, key), sid)
                      [] undo_record.operation = "TABLE_INSERT" ->
                             page_insert(PageOf(d1, key), undo_record.data)
                      [] undo_record.operation = "TABLE_UPDATE" ->
                             page_update(PageOf(d1, key), sid, undo_record.data),
                    LAMBDA r :
                        IF r.err # "" THEN Raise(d1, r.err)
                        ELSE mark_dirty(SetPage(d1, key, set_header(r.page, lsn)),
                                        key))))

RECURSIVE undo_all(_, _, _)
undo_all(d0, undo_records, lsn) ==
    Try(d0, LAMBDA d :
        IF undo_records = <<>> THEN d
        ELSE undo_all(undo_one(d, Head(undo_records), lsn), Tail(undo_records), lsn))

\* perform_undo: parse_record opens undo/<xid> for reading
perform_undo(d0, xid, lsn) ==
    Try(d0, LAMBDA d :
        IF xid \notin DOMAIN d.undo_files THEN Raise(d, "FileNotFoundError")
        ELSE undo_all(d, parse_record(d, xid), lsn))

\* start_transaction: the new xid is d.ret (and the thread's session xid)
start_transaction_mgr(d0) ==
    Let(d0, LAMBDA d :
        Try(redo_write(undo_start_transaction(
                          [d EXCEPT !.current_xid = d.current_xid + 1],
                          d.current_xid + 1),
                       RedoRecord(d.current_xid + 1, "BEGIN", None, NoLocation,
                                  EmptyBytes)),
            LAMBDA d1 : Return(d1, d1.current_xid)))

\* mutant: the COMMIT redo record is written before the undo log is flushed
commit_steps_redo_first(d0, xid, session) ==
    LET d1 == redo_write(d0, RedoRecord(session, "COMMIT", None, NoLocation,
                                        EmptyBytes))
        d2 == undo_flush(d1, xid)
    IN  <<d1, d2, undo_commit_transaction(d2, xid)>>

\* the states commit_transaction(xid) passes through, one after each of its
\* three statements: undo flush, redo write of COMMIT, undo commit
commit_steps(d0, xid, session) ==
    LET d1 == undo_flush(d0, xid)
        d2 == redo_write(d1, RedoRecord(session, "COMMIT", None, NoLocation,
                                        EmptyBytes))
    IN  <<d1, d2, undo_commit_transaction(d2, xid)>>

\* commit_transaction(xid) called by the thread whose session xid is session
commit_transaction_mgr(d0, xid, session) == commit_steps(d0, xid, session)[3]

abort_transaction_mgr(d0, xid) ==
    Try(redo_write(d0, RedoRecord(xid, "ABORT", None, NoLocation, EmptyBytes)),
        LAMBDA d1 :
            undo_abort_transaction(perform_undo(undo_flush(d1, xid), xid, d1.ret),
                                   xid))

\* the end of the last CHECKPOINT record of the file, 0 without one
checkpoint_lsn_of(file) ==
    LET K == {k \in 1..Len(file) : file[k].action = "CHECKPOINT"}
    IN  IF K = {} THEN 0 ELSE TotalLen(SubSeq(file, 1, Max(K)))

\* recovery, a table record of the second loop: applied when the page's lsn
\* is below replay_lsn; the page is not marked dirty
redo_one(d0, redo_record, replay_lsn) ==
    LET pageno == redo_record.location[1]
        sid == redo_record.location[2]
        key == <<redo_record.relation, redo_record.location[1]>>
        action == redo_record.action
    IN  Try(table_tuple_get_page(d0, redo_record.relation, pageno), LAMBDA d1 :
            IF ~(PageOf(d1, key).lsn < replay_lsn) THEN d1
            ELSE
            Let(CASE action = "TABLE_INSERT" ->
                         page_insert(PageOf(d1, key), redo_record.data)
                  [] action = "TABLE_DELETE" ->
                         page_delete(PageOf(d1, key), sid) @@ [sid |-> sid]
                  [] action = "TABLE_UPDATE" ->
                         page_update(PageOf(d1, key), sid, redo_record.data),
                LAMBDA r :
                    IF r.err # "" THEN Raise(d1, r.err)
                    ELSE IF action = "TABLE_INSERT" /\ r.sid # sid
                    THEN Raise(SetPage(d1, key, set_header(r.page, replay_lsn)),
                               "AssertionError")
                    ELSE SetPage(d1, key, set_header(r.page, replay_lsn))))

\* one record of the second loop of recovery; st is the loop's state: the
\* engine d, the list transactions, replay_lsn
replay_one(st0, redo_record) ==
    LET xid == redo_record.xid
        action == redo_record.action
    IN  Let(st0, LAMBDA st :
        Let(st.replay_lsn + RecordLen(redo_record), LAMBDA replay_lsn :
            IF st.d.err # "" THEN st
            ELSE IF action = "BEGIN"
            THEN [st EXCEPT !.replay_lsn = replay_lsn,
                            !.d.current_xid = xid,
                            !.transactions = Append(@, xid)]
            ELSE IF action \in {"TABLE_INSERT", "TABLE_DELETE", "TABLE_UPDATE"}
            THEN [st EXCEPT !.replay_lsn = replay_lsn,
                            !.d = redo_one(@, redo_record, replay_lsn)]
            ELSE IF action = "ABORT"
            THEN [st EXCEPT !.replay_lsn = replay_lsn,
                            !.d = perform_undo(@, xid, replay_lsn)]
            ELSE IF action = "COMMIT"
            THEN IF Count(st.transactions, xid) = 0
                 THEN [st EXCEPT !.replay_lsn = replay_lsn,
                                 !.d = Raise(@, "ValueError")]
                 ELSE [st EXCEPT !.replay_lsn = replay_lsn,
                                 !.transactions = ListRemove(@, xid)]
            ELSE [st EXCEPT !.replay_lsn = replay_lsn]))

RECURSIVE replay_all(_, _)
replay_all(st0, redo_records) ==
    Let(st0, LAMBDA st :
        IF redo_records = <<>> \/ st.d.err # "" THEN st
        ELSE replay_all(replay_one(st, Head(redo_records)), Tail(redo_records)))

\* the last loop of recovery: the transactions left without COMMIT
RECURSIVE rollback_all(_, _)
rollback_all(d0, transactions) ==
    Try(d0, LAMBDA d :
        IF transactions = <<>> THEN d
        ELSE Try(redo_write(d, RedoRecord(Head(transactions), "ABORT", None,
                                          NoLocation, EmptyBytes)),
                 LAMBDA d1 :
                     rollback_all(perform_undo(d1, Head(transactions), d1.ret),
                                  Tail(transactions))))

recovery_mgr(d0) ==
    Let(d0, LAMBDA d :
        Let(checkpoint_lsn_of(d.redo_file), LAMBDA checkpoint_lsn :
            Let(replay_all([d |-> [d EXCEPT !.redo.flush_lsn = TotalLen(d.redo_file),
                                            !.redo.write_lsn = TotalLen(d.redo_file)],
                            transactions |-> <<>>,
                            replay_lsn |-> checkpoint_lsn],
                           replay(d.redo_file, checkpoint_lsn)),
                LAMBDA st : rollback_all(st.d, st.transactions))))

\* sorted(dirty_pages); the keys are of one table, so the order is by pageno
RECURSIVE SortedKeys(_)
SortedKeys(S) ==
    IF S = {} THEN <<>>
    ELSE Let(CHOOSE x \in S : \A y \in S : x[2] <= y[2], LAMBDA k :
             <<k>> \o SortedKeys(S \ {k}))

\* checkpoint, one dirty page: get_all_dirty_pages yields it from the cache or
\* from the evicted map, then sync_table_page and unmark_dirty
sync_one(d0, key) ==
    Let(d0, LAMBDA d :
        Try(IF InCache(d, key)
            THEN sync_table_page([d EXCEPT !.bp.lru_cache = get(@, key)],
                                 key[1], key[2], PageOf(d, key))
            ELSE IF key \in DOMAIN d.bp.lru_cache.evicted
            THEN sync_table_page(d, key[1], key[2], d.bp.lru_cache.evicted[key])
            ELSE Raise(d, "AssertionError"),
            LAMBDA d1 : unmark_dirty(d1, key)))

RECURSIVE sync_all(_, _)
sync_all(d0, keys) ==
    Try(d0, LAMBDA d :
        IF keys = <<>> THEN d
        ELSE sync_all(sync_one(d, Head(keys)), Tail(keys)))

checkpoint_mgr(d0) ==
    Try(redo_write(d0, RedoRecord(INVALID_XID, "CHECKPOINT", None, NoLocation,
                                  EmptyBytes)),
        LAMBDA d1 : sync_all(d1, SortedKeys(d1.bp.dirty_pages)))

(***************************************************************************)
(* The storage engine as actions: two session threads working on one       *)
(* table, the checkpointer, the crash of the process and its restart.      *)
(* A thread runs one transaction at a time, touches only live tuples, and  *)
(* never a tuple that a transaction of the other thread has written (the   *)
(* executor takes the tuple's lock first).                                 *)
(***************************************************************************)
MaxTxns == 2
MaxOps == 2
MaxCrash == 1
MaxCkpt == 1
MaxSteps == 4

TheTable == CHOOSE t \in Tables : TRUE
TupleIds == {"a", "L"}

\* multisets of tuples as functions tuple -> count, without zero entries
BagCount(b, v) == IF v \in DOMAIN b THEN b[v] ELSE 0

BagPlus(b, v, n) ==
    IF BagCount(b, v) + n = 0 THEN DictDel(b, v)
    ELSE DictSet(b, v, BagCount(b, v) + n)

RECURSIVE BagSum(_, _)
BagSum(b, c) ==
    IF DOMAIN c = {} THEN b
    ELSE LET v == CHOOSE x \in DOMAIN c : TRUE
         IN  BagSum(BagPlus(b, v, c[v]), DictDel(c, v))

BagOfSeq(s) == [v \in Range(s) |-> Count(s, v)]

DB == [bp |-> buffer_pool, redo |-> redo_mgr, redo_file |-> redo_file,
       undo |-> undo_mgr, undo_files |-> undo_files, tbl |-> tbl_files,
       current_xid |-> current_xid, idx |-> ix.file, err |-> "", ret |-> None]

SetDB(d) ==
    /\ buffer_pool' = d.bp
    /\ redo_mgr' = d.redo
    /\ redo_file' = d.redo_file
    /\ undo_mgr' = d.undo
    /\ undo_files' = d.undo_files
    /\ tbl_files' = d.tbl
    /\ current_xid' = d.current_xid

LiveBag == BagOfSeq(table_tuple_get_all(DB, TheTable))

LiveLocations == Range(table_tuple_get_all_locations(DB, TheTable, 0, 0))

\* the xids whose last BEGIN in the redo log file is followed by neither
\* their COMMIT nor their ABORT
InFlight(file) ==
    {x \in {file[i].xid : i \in DOMAIN file} :
        \E i \in DOMAIN file :
            /\ file[i].xid = x /\ file[i].action = "BEGIN"
            /\ \A j \in (i + 1)..Len(file) :
                  file[j].xid = x => file[j].action \notin {"BEGIN", "COMMIT", "ABORT"}}

NoPending == [delta |-> EmptyDict, locs |-> {}, dead |-> {}]
NoSnap == [th |-> 0, bag |-> EmptyDict]
NoTxnCall == [op |-> "none", th |-> 0, xid |-> 0, err |-> ""]

InitTxnWith(pool) ==
    /\ buffer_pool = pool
    /\ redo_mgr = RedoLogManager
    /\ redo_file = <<>>
    /\ undo_mgr = EmptyDict
    /\ undo_files = EmptyDict
    /\ tbl_files = [t \in Tables |-> <<>>]
    /\ current_xid = 0
    /\ thread_xid = [th \in Threads |-> INVALID_XID]
    /\ phase = "up"
    /\ txn_last = NoTxnCall
    /\ hist = [starts |-> 0, ops |-> 0, crashes |-> 0, ckpts |-> 0,
               pending |-> [th \in Threads |-> NoPending],
               committed |-> EmptyDict, deleted |-> {},
               snap |-> NoSnap, inflight |-> {}, failed |-> {}]

InitTxn == InitTxnWith(BufferPool)

\* the run's budget of transactions, table operations, checkpoints and crashes
Budget == hist.starts + hist.ops + hist.ckpts + hist.crashes < MaxSteps

session_xid(th) == thread_xid[th]

\* an exception out of commit_transaction or abort_transaction ends the
\* session: the thread makes no further call
InTransaction(th) == session_xid(th) \in DOMAIN undo_mgr /\ th \notin hist.failed

Free(th, location) ==
    \A o \in Threads \ {th} : location \notin hist.pending[o].locs

start_transaction(th) ==
    /\ phase = "up"
    /\ session_xid(th) \notin DOMAIN undo_mgr
    /\ th \notin hist.failed
    /\ hist.starts < MaxTxns
    /\ Budget
    /\ \E d \in {start_transaction_mgr(DB)} :
           /\ SetDB(d)
           /\ thread_xid' = [thread_xid EXCEPT ![th] = d.ret]
           /\ txn_last' = [op |-> "start", th |-> th, xid |-> d.ret, err |-> d.err]
           /\ hist' = [hist EXCEPT !.starts = @ + 1,
                                   !.pending[th] = NoPending,
                                   !.snap = IF DOMAIN undo_mgr = {}
                                            THEN [th |-> th, bag |-> LiveBag]
                                            ELSE NoSnap]
    /\ UNCHANGED <<phase, lockVars, lruVars, pageVars, treeVars, heapVars, planVars, ixVars, redoVars>>

TableInsert(th, id) ==
    /\ phase = "up"
    /\ InTransaction(th)
    /\ hist.ops < MaxOps
    /\ Budget
    /\ \E d \in {table_tuple_insert_one(DB, session_xid(th), TheTable, Tup(id))} :
           /\ SetDB(d)
           /\ txn_last' = [op |-> "insert", th |-> th, xid |-> session_xid(th),
                           err |-> d.err]
           /\ hist' = IF d.err # "" THEN [hist EXCEPT !.ops = @ + 1]
                      ELSE [hist EXCEPT
                               !.ops = @ + 1,
                               !.pending[th].delta = BagPlus(@, Tup(id), 1),
                               !.pending[th].locs = @ \cup {d.ret}]
    /\ UNCHANGED <<thread_xid, phase, lockVars, lruVars, pageVars, treeVars, heapVars, planVars, ixVars, redoVars>>

TableUpdate(th, location, id) ==
    /\ phase = "up"
    /\ InTransaction(th)
    /\ hist.ops < MaxOps
    /\ Budget
    /\ location \in LiveLocations
    /\ Free(th, location)
    /\ \E d \in {table_tuple_update_one(DB, session_xid(th), TheTable, location, Tup(id))} :
       LET old == PeekOne(DB, TheTable, location)
           u == page_update(PeekPage(DB, TheTable, location[1]), location[2],
                            tuple_to_bytes(Tup(id)))
           new_location == IF u.err = "" THEN <<location[1], d.ret>> ELSE d.ret
       IN  /\ SetDB(d)
           /\ txn_last' = [op |-> "update", th |-> th, xid |-> session_xid(th),
                           err |-> d.err]
           /\ hist' = IF d.err # "" THEN [hist EXCEPT !.ops = @ + 1]
                      ELSE [hist EXCEPT
                               !.ops = @ + 1,
                               !.pending[th].delta =
                                   BagPlus(BagPlus(@, old, -1), Tup(id), 1),
                               !.pending[th].locs = @ \cup {location, new_location},
                               !.pending[th].dead =
                                   IF new_location = location THEN @
                                   ELSE @ \cup {location}]
    /\ UNCHANGED <<thread_xid, phase, lockVars, lruVars, pageVars, treeVars, heapVars, planVars, ixVars, redoVars>>

TableDelete(th, location) ==
    /\ phase = "up"
    /\ InTransaction(th)
    /\ hist.ops < MaxOps
    /\ Budget
    /\ location \in LiveLocations
    /\ Free(th, location)
    /\ \E d \in {table_tuple_delete_one(DB, session_xid(th), TheTable, location)} :
       LET old == PeekOne(DB, TheTable, location)
       IN  /\ SetDB(d)
           /\ txn_last' = [op |-> "delete", th |-> th, xid |-> session_xid(th),
                           err |-> d.err]
           /\ hist' = IF d.err # "" THEN [hist EXCEPT !.ops = @ + 1]
                      ELSE [hist EXCEPT
                               !.ops = @ + 1,
                               !.pending[th].delta = BagPlus(@, old, -1),
                               !.pending[th].locs = @ \cup {location},
                               !.pending[th].dead = @ \cup {location}]
    /\ UNCHANGED <<thread_xid, phase, lockVars, lruVars, pageVars, treeVars, heapVars, planVars, ixVars, redoVars>>

\* the thread commits its own transaction: xid is its session xid
commit_transaction(th) ==
    /\ phase = "up"
    /\ InTransaction(th)
    /\ \E d \in {commit_transaction_mgr(DB, session_xid(th), session_xid(th))} :
           /\ SetDB(d)
           /\ txn_last' = [op |-> "commit", th |-> th, xid |-> session_xid(th),
                           err |-> d.err]
           /\ hist' = IF d.err # "" THEN [hist EXCEPT !.failed = @ \cup {th}]
                      ELSE [hist EXCEPT
                               !.committed = BagSum(@, hist.pending[th].delta),
                               !.deleted = (@ \ hist.pending[th].locs)
                                              \cup hist.pending[th].dead,
                               !.pending[th] = NoPending]
    /\ UNCHANGED <<thread_xid, phase, lockVars, lruVars, pageVars, treeVars, heapVars, planVars, ixVars, redoVars>>

abort_transaction(th) ==
    /\ phase = "up"
    /\ InTransaction(th)
    /\ \E d \in {abort_transaction_mgr(DB, session_xid(th))} :
           /\ SetDB(d)
           /\ txn_last' = [op |-> "abort", th |-> th, xid |-> session_xid(th),
                           err |-> d.err]
           /\ hist' = [hist EXCEPT !.pending[th] = NoPending,
                                   !.failed = IF d.err # "" THEN @ \cup {th} ELSE @]
    /\ UNCHANGED <<thread_xid, phase, lockVars, lruVars, pageVars, treeVars, heapVars, planVars, ixVars, redoVars>>

checkpoint ==
    /\ phase = "up"
    /\ hist.ckpts < MaxCkpt
    /\ Budget
    /\ \E d \in {checkpoint_mgr(DB)} :
           /\ SetDB(d)
           /\ txn_last' = [op |-> "checkpoint", th |-> 0, xid |-> INVALID_XID,
                           err |-> d.err]
    /\ hist' = [hist EXCEPT !.ckpts = @ + 1]
    /\ UNCHANGED <<thread_xid, phase, lockVars, lruVars, pageVars, treeVars, heapVars, planVars, ixVars, redoVars>>

\* the process is killed and started again: the module globals are built
\* anew (BufferPool(), TransactionManager()), the files stay
Crash ==
    /\ phase \in {"up", "raised"}
    /\ hist.crashes < MaxCrash
    /\ Budget
    /\ buffer_pool' = BufferPool
    /\ redo_mgr' = RedoLogManager
    /\ undo_mgr' = EmptyDict
    /\ current_xid' = 0
    /\ thread_xid' = [th \in Threads |-> INVALID_XID]
    /\ phase' = "crashed"
    /\ txn_last' = [op |-> "crash", th |-> 0, xid |-> 0, err |-> ""]
    /\ hist' = [hist EXCEPT !.crashes = @ + 1,
                            !.pending = [th \in Threads |-> NoPending],
                            !.snap = NoSnap,
                            !.failed = {},
                            !.inflight = InFlight(redo_file)]
    /\ UNCHANGED <<redo_file, undo_files, tbl_files, lockVars, lruVars, pageVars, treeVars, heapVars, planVars, ixVars, redoVars>>

\* recovery() runs at start-up, before any session
recovery ==
    /\ phase = "crashed"
    /\ \E d \in {recovery_mgr(DB)} :
           /\ SetDB(d)
           /\ phase' = IF d.err # "" THEN "raised" ELSE "up"
           /\ txn_last' = [op |-> "recovery", th |-> 0, xid |-> 0, err |-> d.err]
    /\ UNCHANGED <<thread_xid, hist, lockVars, lruVars, pageVars, treeVars, heapVars, planVars, ixVars, redoVars>>

(***************************************************************************)
(* The heap under one session: a transaction that inserts, updates,        *)
(* deletes and reads tuples of one table, other pages of the table being   *)
(* fetched and checkpoints taken in between.  The pool of these runs has   *)
(* PoolSize frames, BufferPool(buffer_size = PoolSize), so that a page is  *)
(* evicted within the bounds; G = (1, 'x' * 5000) fills more than half a   *)
(* page.                                                                   *)
(***************************************************************************)
PoolSize == 2
MaxHeapOps == 4
MaxPageNo == 2

HeapThread == CHOOSE th \in Threads : TRUE
HeapTupleIds == {"a", "G"}
HeapPages == 0..MaxPageNo

NoHeapCall == [op |-> "none", location |-> NoLocation, tup |-> None,
               ret |-> None, err |-> ""]

InitHeapSession == heap = [last |-> NoHeapCall, ops |-> 0, written |-> EmptyDict]

\* the locations the session wrote a tuple to that it has not deleted since
HeapLive == {l \in DOMAIN heap.written : heap.written[l] # EmptyTuple}

HeapReady ==
    /\ phase = "up"
    /\ session_xid(HeapThread) \in DOMAIN undo_mgr
    /\ heap.ops < MaxHeapOps

\* a call that raised leaves no expectation about the location it was for
HeapSet(d, op, location, tup, ret, written) ==
    /\ SetDB(d)
    /\ heap' = [last |-> [op |-> op, location |-> location, tup |-> tup,
                          ret |-> ret, err |-> d.err],
                ops |-> heap.ops + 1,
                written |-> IF d.err = "" THEN written
                            ELSE IF op \in {"update", "delete"}
                            THEN DictDel(heap.written, location)
                            ELSE heap.written]

HeapStart ==
    /\ phase = "up"
    /\ session_xid(HeapThread) \notin DOMAIN undo_mgr
    /\ heap.last.op = "none"
    /\ \E d \in {start_transaction_mgr(DB)} :
           /\ SetDB(d)
           /\ thread_xid' = [thread_xid EXCEPT ![HeapThread] = d.ret]
           /\ heap' = [heap EXCEPT !.last.op = "start"]
    /\ UNCHANGED <<phase, txn_last, hist, lockVars, lruVars, pageVars, treeVars, planVars, ixVars, redoVars>>

\* table_tuple_insert_one: the location returned is d.ret
HeapInsert(id) ==
    /\ HeapReady
    /\ \E d \in {table_tuple_insert_one(DB, session_xid(HeapThread), TheTable,
                                        Tup(id))} :
           HeapSet(d, "insert", NoLocation, Tup(id),
                   IF d.err = "" THEN d.ret ELSE None,
                   IF d.err = "" THEN DictSet(heap.written, d.ret, Tup(id))
                   ELSE heap.written)
    /\ UNCHANGED <<thread_xid, phase, txn_last, hist, lockVars, lruVars, pageVars,
                   treeVars, planVars, ixVars, redoVars>>

\* table_tuple_update_one: returns the new sid, or the location that
\* table_tuple_insert_one returned when the record was deleted and inserted
HeapUpdate(location, id) ==
    /\ HeapReady
    /\ location \in HeapLive
    /\ \E d \in {table_tuple_update_one(DB, session_xid(HeapThread), TheTable,
                                        location, Tup(id))} :
       LET u == page_update(PeekPage(DB, TheTable, location[1]), location[2],
                            tuple_to_bytes(Tup(id)))
           new_location == IF d.err # "" THEN location
                           ELSE IF u.err = "" THEN <<location[1], d.ret>>
                           ELSE d.ret
       IN  HeapSet(d, "update", location, Tup(id), new_location,
                   DictSet(IF new_location = location THEN heap.written
                           ELSE DictSet(heap.written, location, EmptyTuple),
                           new_location, Tup(id)))
    /\ UNCHANGED <<thread_xid, phase, txn_last, hist, lockVars, lruVars, pageVars,
                   treeVars, planVars, ixVars, redoVars>>

HeapDelete(location) ==
    /\ HeapReady
    /\ location \in HeapLive
    /\ \E d \in {table_tuple_delete_one(DB, session_xid(HeapThread), TheTable,
                                        location)} :
           HeapSet(d, "delete", location, None, None,
                   DictSet(heap.written, location, EmptyTuple))
    /\ UNCHANGED <<thread_xid, phase, txn_last, hist, lockVars, lruVars, pageVars,
                   treeVars, planVars, ixVars, redoVars>>

\* table_tuple_get_one of a location the session wrote
HeapGet(location) ==
    /\ HeapReady
    /\ location \in DOMAIN heap.written
    /\ \E d \in {table_tuple_get_one(DB, TheTable, location)} :
           HeapSet(d, "get", location, None,
                   IF d.err = "" THEN d.ret ELSE None, heap.written)
    /\ UNCHANGED <<thread_xid, phase, txn_last, hist, lockVars, lruVars, pageVars,
                   treeVars, planVars, ixVars, redoVars>>

\* table_tuple_get_page of any page of the table
HeapFetch(pageno) ==
    /\ HeapReady
    /\ \E d \in {table_tuple_get_page(DB, TheTable, pageno)} :
           HeapSet(d, "fetch", <<pageno>>, None, None, heap.written)
    /\ UNCHANGED <<thread_xid, phase, txn_last, hist, lockVars, lruVars, pageVars,
                   treeVars, planVars, ixVars, redoVars>>

HeapCheckpoint ==
    /\ HeapReady
    /\ \E d \in {checkpoint_mgr(DB)} :
           HeapSet(d, "checkpoint", NoLocation, None, None, heap.written)
    /\ UNCHANGED <<thread_xid, phase, txn_last, hist, lockVars, lruVars, pageVars,
                   treeVars, planVars, ixVars, redoVars>>

(***************************************************************************)
(* The table and its index ix under one session.  A first transaction      *)
(* fills the table and commits, index_tuple_create builds the index, and   *)
(* the transactions after it delete tuples, each with its index entry, and *)
(* abort or commit.  The tuples are a = (1, 2), c = (3, 4), e = (1, 3).    *)
(***************************************************************************)
MaxIxRows == 2
MaxIxDeletes == 2
MaxIxTxns == 3

IxThread == CHOOSE th \in Threads : TRUE
IxTupleIds == {"a", "c", "e"}

\* the index column of a tuple: its first column
IndexKey(tup) == IF tup.base = "c" THEN 3 ELSE 1

RECURSIVE LeafSlots(_)
LeafSlots(pages) ==
    IF pages = <<>> THEN <<>>
    ELSE (IF Head(pages).flags = 1 THEN Head(pages).slots ELSE <<>>)
         \o LeafSlots(Tail(pages))

\* the entries (key, location) of the index file
IndexEntries(file) == IF file.exists THEN LeafSlots(file.pages) ELSE <<>>

\* every index entry points to a live tuple whose index column is its key
IndexConsistent(d) ==
    \A i \in DOMAIN IndexEntries(d.idx) :
        LET key == IndexEntries(d.idx)[i][1]
            location == StrLoc(IndexEntries(d.idx)[i][2])
        IN  /\ location[2] < Len(PeekPage(d, TheTable, location[1]).slot_directory)
            /\ ~ table_tuple_is_dead(d, TheTable, location)
            /\ IndexKey(PeekOne(d, TheTable, location)) = key

NoIx == [file |-> NoFile, last |-> [op |-> "none", err |-> ""], rows |-> 0,
         deletes |-> 0, before |-> <<>>, consistent |-> FALSE]

InitIxSession == ix = NoIx

IxInTransaction == phase = "up" /\ session_xid(IxThread) \in DOMAIN undo_mgr

IxLive == Range(table_tuple_get_all_locations(DB, TheTable, 0, 0))

IxSet(d, op) ==
    /\ SetDB(d)
    /\ ix' = [ix EXCEPT !.file = d.idx, !.last = [op |-> op, err |-> d.err],
                        !.rows = IF op = "insert" THEN @ + 1 ELSE @,
                        !.deletes = IF op = "delete" THEN @ + 1 ELSE @]

\* start_transaction; history: the index entries and whether they are
\* consistent with the table when the transaction starts
IxStart ==
    /\ phase = "up"
    /\ session_xid(IxThread) \notin DOMAIN undo_mgr
    /\ ix.last.err = ""
    /\ current_xid < MaxIxTxns
    /\ \E d \in {start_transaction_mgr(DB)} :
           /\ SetDB(d)
           /\ thread_xid' = [thread_xid EXCEPT ![IxThread] = d.ret]
           /\ ix' = [ix EXCEPT !.last = [op |-> "start", err |-> d.err],
                               !.deletes = 0,
                               !.before = IndexEntries(ix.file),
                               !.consistent = IndexConsistent(DB)]
    /\ UNCHANGED <<phase, txn_last, hist, lockVars, lruVars, pageVars, treeVars,
                   heapVars, planVars, redoVars>>

\* the first transaction fills the table: table_tuple_insert_one
IxInsert(id) ==
    /\ IxInTransaction
    /\ ~ ix.file.exists
    /\ ix.rows < MaxIxRows
    /\ \E d \in {table_tuple_insert_one(DB, session_xid(IxThread), TheTable,
                                        Tup(id))} :
           IxSet(d, "insert")
    /\ UNCHANGED <<thread_xid, phase, txn_last, hist, lockVars, lruVars, pageVars,
                   treeVars, heapVars, planVars, redoVars>>

IxCommit ==
    /\ IxInTransaction
    /\ \E d \in {commit_transaction_mgr(DB, session_xid(IxThread),
                                         session_xid(IxThread))} :
           IxSet(d, "commit")
    /\ UNCHANGED <<thread_xid, phase, txn_last, hist, lockVars, lruVars, pageVars,
                   treeVars, heapVars, planVars, redoVars>>

\* index_tuple_create(ix, t, [first column]): one entry per live tuple
IxCreate ==
    /\ phase = "up"
    /\ session_xid(IxThread) \notin DOMAIN undo_mgr
    /\ ix.last.op = "commit"
    /\ ~ ix.file.exists
    /\ LET locations == table_tuple_get_all_locations(DB, TheTable, 0, 0)
           rows == [i \in DOMAIN locations |->
                       <<IndexKey(PeekOne(DB, TheTable, locations[i])),
                         LocStr(locations[i])>>]
       IN  \E t \in {index_tuple_create(rows)} :
               ix' = [ix EXCEPT !.file = t.file,
                                !.last = [op |-> "create", err |-> t.err]]
    /\ UNCHANGED <<lockVars, lruVars, txnVars, pageVars, treeVars, heapVars,
                   planVars, redoVars>>

\* the transaction deletes the live tuple at location and its index entry:
\* table_tuple_delete_one, then index_tuple_delete_one(ix, key, location)
IxDelete(location) ==
    /\ IxInTransaction
    /\ ix.file.exists
    /\ ix.deletes < MaxIxDeletes
    /\ location \in IxLive
    /\ \E d \in {index_tuple_delete_one(
                     table_tuple_delete_one(DB, session_xid(IxThread), TheTable,
                                            location),
                     session_xid(IxThread),
                     IndexKey(PeekOne(DB, TheTable, location)), location)} :
           IxSet(d, "delete")
    /\ UNCHANGED <<thread_xid, phase, txn_last, hist, lockVars, lruVars, pageVars,
                   treeVars, heapVars, planVars, redoVars>>

IxAbort ==
    /\ IxInTransaction
    /\ ix.file.exists
    /\ \E d \in {abort_transaction_mgr(DB, session_xid(IxThread))} :
           IxSet(d, "abort")
    /\ UNCHANGED <<thread_xid, phase, txn_last, hist, lockVars, lruVars, pageVars,
                   treeVars, heapVars, planVars, redoVars>>

(***************************************************************************)
(* One index under insert, delete, find, find_range, serialize and         *)
(* deserialize.  The index is first created by index_tuple_create: built   *)
(* from the rows of its table and written to its file.                     *)
(***************************************************************************)
MaxRows == 10
MaxTreeOps == 4

TreeKeys == {1, 2, 3}
TreeValues == {"x", "y"}
TreeStarts == {NegInf, 1, 2}
TreeEnds == {PosInf, 3}

\* a table of n rows: the key 1 in the first five rows, the key 3 after them
TableRows(n) == [i \in 1..n |-> <<IF i <= 5 THEN 1 ELSE 3, "x">>]

TreeSeeds == {TableRows(0), TableRows(MaxRows), TableRows(MaxRows + 1)}

TreeOf(t) == [nodes |-> t.nodes, root |-> t.root, node_count |-> t.node_count]

BTof(b, f) == [nodes |-> b.nodes, root |-> b.root, node_count |-> b.node_count,
               file |-> f, err |-> "", ret |-> None]

BT == BTof(bt, bt_file)

\* no index yet: the tree object is the empty BPlusTree, not yet on disk
InitTree ==
    /\ bt = TreeOf(BPlusTree(NoFile))
    /\ bt_file = NoFile
    /\ bt_last = [op |-> "none", key |-> NoneKey, value |-> None, ret |-> None,
                  err |-> "", prev |-> "none"]
    /\ bt_hist = [ops |-> 0, live |-> EmptyDict, lazy |-> FALSE]

\* index_tuple_create on a table holding rows
IndexCreate(rows) ==
    /\ bt_last.op = "none"
    /\ \E t \in {index_tuple_create(rows)} :
          /\ bt' = TreeOf(t)
          /\ bt_file' = t.file
          /\ bt_last' = [op |-> "create", key |-> NoneKey, value |-> None,
                         ret |-> None, err |-> t.err, prev |-> "none"]
          /\ bt_hist' = [ops |-> 0, live |-> BagOfSeq(rows), lazy |-> FALSE]
    /\ UNCHANGED <<lockVars, lruVars, txnVars, pageVars, heapVars, planVars, ixVars, redoVars>>

TreeStep(t, op, key, value, live) ==
    /\ bt' = TreeOf(t)
    /\ bt_file' = t.file
    /\ bt_last' = [op |-> op, key |-> key, value |-> value, ret |-> t.ret,
                   err |-> t.err, prev |-> bt_last.op]
    /\ bt_hist' = [bt_hist EXCEPT !.ops = @ + 1,
                                  !.live = IF t.err = "" THEN live ELSE @,
                                  !.lazy = @ \/ op = "deserialize"]
    /\ UNCHANGED <<lockVars, lruVars, txnVars, pageVars, heapVars, planVars, ixVars, redoVars>>

TreeInsert(key, value) ==
    /\ bt_last.op # "none"
    /\ bt_hist.ops < MaxTreeOps
    /\ \E t \in {tree_insert(BT, key, value)} :
          TreeStep(t, "insert", key, value, BagPlus(bt_hist.live, <<key, value>>, 1))

\* delete(key) is delete(key, None)
TreeDelete(key, value) ==
    /\ bt_last.op # "none"
    /\ bt_hist.ops < MaxTreeOps
    /\ \E t \in {tree_delete(BT, key, value)} :
          TreeStep(t, "delete", key, value,
                   [e \in {x \in DOMAIN bt_hist.live :
                              ~(x[1] = key /\ (value = None \/ x[2] = value))}
                       |-> bt_hist.live[e]])

TreeFind(key) ==
    /\ bt_last.op # "none"
    /\ bt_hist.ops < MaxTreeOps
    /\ \E t \in {tree_find(BT, key)} :
          TreeStep(t, "find", key, None, bt_hist.live)

TreeFindRange(start, end, return_keys) ==
    /\ bt_last.op # "none"
    /\ bt_hist.ops < MaxTreeOps
    /\ \E t \in {tree_find_range(BT, start, end, return_keys)} :
          TreeStep(t, "find_range", start, end, bt_hist.live)

TreeSerialize ==
    /\ bt_last.op # "none"
    /\ bt_hist.ops < MaxTreeOps
    /\ \E t \in {tree_serialize(BT)} :
          TreeStep(t, "serialize", NoneKey, None, bt_hist.live)

TreeDeserialize ==
    /\ bt_last.op # "none"
    /\ bt_hist.ops < MaxTreeOps
    /\ \E t \in {tree_deserialize(bt_file)} :
          TreeStep(t, "deserialize", NoneKey, None, bt_hist.live)


(***************************************************************************)
(* The redo log written by several threads.  RedoLogManager.write takes    *)
(* no lock, so the calls interleave statement by statement; a thread can   *)
(* be switched out wherever the interpreter releases its lock, and it does *)
(* so in f.write, os.fsync and close.  The file object opened by flush     *)
(* buffers what f.write is given (the records are far smaller than its     *)
(* buffer) and hands it to the file, opened for append, when it is closed. *)
(* A thread th writes the records of transaction th: BEGIN and COMMIT      *)
(* records, told apart by a serial number kept in the location field.      *)
(***************************************************************************)
MaxRedoWrites == 2

RedoActions == {"BEGIN", "COMMIT"}

IdleWriter == [pc |-> "idle", record |-> None, tmp |-> 0, it |-> 0,
               fbuf |-> <<>>, seen |-> 0, n |-> 0]

NoRedoHist == [appended |-> <<>>, due |-> {}, returned |-> {}]

InitRedoWriters == rw = [frame |-> [th \in Threads |-> IdleWriter],
                         hist |-> NoRedoHist]

RwKeep == UNCHANGED <<buffer_pool, undo_mgr, undo_files, tbl_files, current_xid,
                      thread_xid, phase, txn_last, hist, lockVars, lruVars,
                      pageVars, treeVars, heapVars, planVars, ixVars>>

\* write(record): self.log_buffer.append(record)
RedoAppend(th, action) ==
    /\ rw.frame[th].pc = "idle"
    /\ rw.frame[th].n < MaxRedoWrites
    /\ LET record == RedoRecord(th, action, None,
                                <<th, rw.frame[th].n>>, EmptyBytes)
       IN  /\ redo_mgr' = [redo_mgr EXCEPT !.log_buffer = Append(@, record)]
           /\ rw' = [rw EXCEPT !.frame[th].pc = "load",
                               !.frame[th].record = record,
                               !.frame[th].n = @ + 1,
                               !.hist.appended = Append(@, record)]
    /\ UNCHANGED redo_file
    /\ RwKeep

\* self.write_lsn += len(record), the read of write_lsn
RedoLoadLsn(th) ==
    /\ rw.frame[th].pc = "load"
    /\ rw' = [rw EXCEPT !.frame[th].pc = "store",
                        !.frame[th].tmp = redo_mgr.write_lsn]
    /\ UNCHANGED <<redo_mgr, redo_file>>
    /\ RwKeep

\* self.write_lsn += len(record), the store; then the test of the flush
\* condition
RedoStoreLsn(th) ==
    /\ rw.frame[th].pc = "store"
    /\ redo_mgr' = [redo_mgr EXCEPT
                       !.write_lsn = rw.frame[th].tmp + RecordLen(rw.frame[th].record)]
    /\ rw' = [rw EXCEPT !.frame[th].pc =
                  IF rw.frame[th].record.action = "COMMIT"
                     \/ Len(redo_mgr.log_buffer) > REDOLOG_BUFFER_SIZE
                  THEN "open" ELSE "return"]
    /\ UNCHANGED redo_file
    /\ RwKeep

\* flush: open(self.log_filename, 'ab') and the start of the loop over
\* log_buffer; history: the records appended before this flush began
RedoOpen(th) ==
    /\ rw.frame[th].pc = "open"
    /\ rw' = [rw EXCEPT !.frame[th].pc = "iter",
                        !.frame[th].it = 0,
                        !.frame[th].fbuf = <<>>,
                        !.frame[th].seen = Len(rw.hist.appended)]
    /\ UNCHANGED <<redo_mgr, redo_file>>
    /\ RwKeep

\* one turn of the loop: f.write(record.to_bytes()); self.flush_lsn +=
\* len(record); the list iterator stops when its index reaches the length
\* the list has at that moment
RedoIter(th) ==
    /\ rw.frame[th].pc = "iter"
    /\ IF rw.frame[th].it < Len(redo_mgr.log_buffer)
       THEN LET record == redo_mgr.log_buffer[rw.frame[th].it + 1]
            IN  /\ rw' = [rw EXCEPT !.frame[th].it = @ + 1,
                                    !.frame[th].fbuf = Append(@, record)]
                /\ redo_mgr' = [redo_mgr EXCEPT
                                   !.flush_lsn = @ + RecordLen(record)]
       ELSE /\ rw' = [rw EXCEPT !.frame[th].pc = "close"]
            /\ UNCHANGED redo_mgr
    /\ UNCHANGED redo_file
    /\ RwKeep

\* os.fsync(f.fileno()) and the end of the with block: close hands the
\* buffered bytes to the file, at its end
RedoClose(th) ==
    /\ rw.frame[th].pc = "close"
    /\ redo_file' = redo_file \o rw.frame[th].fbuf
    /\ rw' = [rw EXCEPT !.frame[th].pc = "clear", !.frame[th].fbuf = <<>>]
    /\ UNCHANGED redo_mgr
    /\ RwKeep

\* self.log_buffer.clear(); the flush has completed
RedoClear(th) ==
    /\ rw.frame[th].pc = "clear"
    /\ redo_mgr' = [redo_mgr EXCEPT !.log_buffer = <<>>]
    /\ rw' = [rw EXCEPT !.frame[th].pc = "return",
                        !.hist.due = @ \cup {rw.hist.appended[i] :
                                                 i \in 1..rw.frame[th].seen}]
    /\ UNCHANGED redo_file
    /\ RwKeep

\* return self.write_lsn
RedoReturn(th) ==
    /\ rw.frame[th].pc = "return"
    /\ rw' = [rw EXCEPT !.frame[th].pc = "idle",
                        !.hist.returned = @ \cup {[record |-> rw.frame[th].record,
                                                      lsn |-> redo_mgr.write_lsn]}]
    /\ UNCHANGED <<redo_mgr, redo_file>>
    /\ RwKeep

(***************************************************************************)
(* Access-path selection (src/sql/optimizier/planner.py)                   *)
(***************************************************************************)
MaxIndexes == 2

PlanTable == "t"
OtherTable == "u"
PlanColumns == {"a", "b"}

\* an operand of a predicate: a TableColumn or a constant
TableColumn(column_name) == [is_column |-> TRUE, column_name |-> column_name]
Constant == [is_column |-> FALSE, column_name |-> None]

\* a scan node's condition; NoCondition is node.condition = None
Condition(left, right) == [present |-> TRUE, left |-> left, right |-> right]
NoCondition == [present |-> FALSE, left |-> Constant, right |-> Constant]

\* a row of catalog_index
CatalogIndexForm(index_name, table_name, columns) ==
    [index_name |-> index_name, table_name |-> table_name, columns |-> columns]

\* ScanOperator(table_name): columns is the column list of the table's
\* catalog row; nothing prunes it afterwards
ScanOperator(table_columns, table_name) ==
    [table_name |-> table_name, columns |-> table_columns,
     condition |-> NoCondition]

TableScan(table_name, condition) ==
    [name |-> "TableScan", table_name |-> table_name, index_name |-> None,
     condition |-> condition, err |-> ""]
IndexScan(index_name, condition) ==
    [name |-> "IndexScan", table_name |-> None, index_name |-> index_name,
     condition |-> condition, err |-> ""]
CoveredIndexScan(index_name, condition) ==
    [name |-> "CoveredIndexScan", table_name |-> None, index_name |-> index_name,
     condition |-> condition, err |-> ""]
PlanRaise(e) ==
    [name |-> None, table_name |-> None, index_name |-> None,
     condition |-> NoCondition, err |-> e]

\* the TableColumn operands of a condition, left first
condition_columns(condition) ==
    (IF condition.left.is_column THEN <<condition.left>> ELSE <<>>)
        \o (IF condition.right.is_column THEN <<condition.right>> ELSE <<>>)

\* the matching loop: matched starts True and the first index column that
\* differs from a condition column sets it to False
matched(catalog_index_form, cols) ==
    \A i \in DOMAIN cols :
        ~ \E j \in DOMAIN catalog_index_form.columns :
              cols[i].column_name # catalog_index_form.columns[j]

candidate_indexes(results, cols) ==
    SelectSeq(results, LAMBDA r : matched(r, cols))

\* the first candidate whose column list is the shortest
shortest_index(candidates) ==
    LET m == Min({Len(candidates[i].columns) : i \in DOMAIN candidates})
        k == Min({i \in DOMAIN candidates : Len(candidates[i].columns) = m})
    IN  candidates[k]

\* SelectImplementation.implement_scan(node) over the rows of catalog_index
implement_scan(catalog_index, node) ==
    LET results == SelectSeq(catalog_index,
                             LAMBDA r : r.table_name = node.table_name)
        cols == condition_columns(node.condition)
        candidates == candidate_indexes(results, cols)
        covering == {i \in DOMAIN candidates :
                        Len(node.columns) = Len(candidates[i].columns)}
    IN  IF Len(results) = 0 \/ ~ node.condition.present
        THEN TableScan(node.table_name, node.condition)
        ELSE IF Len(cols) >= 2 THEN PlanRaise("NotImplementedError")
        ELSE IF Len(cols) = 0 THEN TableScan(node.table_name, node.condition)
        ELSE IF candidates = <<>>
        THEN TableScan(node.table_name, node.condition)
        ELSE IF covering # {}
        THEN CoveredIndexScan(candidates[Min(covering)].index_name,
                              node.condition)
        ELSE IndexScan(shortest_index(candidates).index_name, node.condition)

\* the catalogs and queries planned here: table t with columns (a) or (a, b),
\* up to MaxIndexes indexes on t or on another table, a select list over the
\* columns of t and at most one predicate
TableColumnLists == {<<"a">>, <<"a", "b">>}
IndexColumnLists == {<<"a">>, <<"b">>, <<"a", "b">>, <<"b", "a">>}
IndexNames == <<"ix", "iy", "iz", "iw">>
Operands == {Constant} \cup {TableColumn(c) : c \in PlanColumns}
Conditions == {NoCondition} \cup {Condition(l, r) : l, r \in Operands}

ColumnsOf(columns) == {columns[i] : i \in DOMAIN columns}

ProjectLists(table_columns) ==
    {p \in {<<"a">>, <<"b">>, <<"a", "b">>} :
        ColumnsOf(p) \subseteq ColumnsOf(table_columns)}

\* the index catalogs of at most MaxIndexes rows; an index of t is over
\* columns of t
Catalogs(table_columns) ==
    {c \in UNION {[1..n -> [table_name : {PlanTable, OtherTable},
                            columns : IndexColumnLists]] : n \in 0..MaxIndexes} :
        \A i \in DOMAIN c :
            c[i].table_name = PlanTable
                => ColumnsOf(c[i].columns) \subseteq ColumnsOf(table_columns)}

NoPlan == [called |-> FALSE, table_columns |-> <<>>, catalog_index |-> <<>>,
           project |-> <<>>, node |-> ScanOperator(<<>>, PlanTable),
           result |-> PlanRaise("")]

InitPlan == plan = NoPlan

\* the query "select <project> from t [where <condition>]" reaches the
\* planner: the scan node of t with the condition pushed to it
PlanQuery(table_columns, rows, project, condition) ==
    plan = [called |-> FALSE, table_columns |-> table_columns,
            catalog_index |->
                [i \in DOMAIN rows |->
                    CatalogIndexForm(IndexNames[i], rows[i].table_name,
                                     rows[i].columns)],
            project |-> project,
            node |-> [ScanOperator(table_columns, PlanTable)
                         EXCEPT !.condition = condition],
            result |-> PlanRaise("")]

InitPlanQuery ==
    \E table_columns \in TableColumnLists :
        \E rows \in Catalogs(table_columns),
           project \in ProjectLists(table_columns), condition \in Conditions :
            PlanQuery(table_columns, rows, project, condition)

\* the planner implements the scan node
PlanScan ==
    /\ ~ plan.called
    /\ plan.table_columns # <<>>
    /\ plan' = [plan EXCEPT !.called = TRUE,
                            !.result = implement_scan(plan.catalog_index,
                                                      plan.node)]
    /\ UNCHANGED <<lockVars, lruVars, txnVars, pageVars, treeVars,
                   heapVars, ixVars, redoVars>>

(***************************************************************************)
(* Specifications                                                          *)
(***************************************************************************)
NoCall == [call |-> "none", key |-> 0, raised |-> FALSE]

InitLock == /\ locks = EmptyDict
            /\ lk = [th \in Threads |-> IdleFrame]

InitLRU == /\ lru = LRUCache(LruCap)
           /\ lru_last = NoCall
           /\ lru_pinned = FALSE

Init ==
    /\ InitLock /\ InitLRU /\ InitTxn /\ InitPage /\ InitTree
    /\ InitHeapSession /\ InitPlan /\ InitIxSession /\ InitRedoWriters

\* the engine started with a pool of PoolSize frames
InitHeap ==
    /\ InitLock /\ InitLRU /\ InitPage /\ InitTree /\ InitHeapSession
    /\ InitPlan /\ InitIxSession /\ InitRedoWriters
    /\ InitTxnWith(BufferPoolOf(PoolSize))

NextLock ==
    \/ \E th \in Threads, r \in Resources, m \in Modes : acquire_lock(th, r, m)
    \/ \E th \in Threads : acquire_lock_attempt(th)
    \/ \E th \in Threads : acquire_lock_wake(th)
    \/ \E th \in Threads, r \in Resources : release_lock(th, r)

NextLRU ==
    \/ \E k \in LruKeys, v \in LruVals : LruPut(k, v)
    \/ \E k \in LruKeys : LruGet(k)
    \/ \E k \in LruKeys : LruPin(k)
    \/ \E k \in LruKeys : LruUnpin(k)

SpecLock == Init /\ [][NextLock]_vars

\* a thread inside acquire_lock keeps running: the attempt and the timed
\* sleep both complete
FairSpecLock ==
    /\ SpecLock
    /\ \A th \in Threads : WF_vars(acquire_lock_attempt(th))
    /\ \A th \in Threads : WF_vars(acquire_lock_wake(th))

SpecLRU == Init /\ [][NextLRU]_vars

NextPage ==
    \/ \E record \in PageRecords \cup {FillRecord} : PageInsert(record)
    \/ \E sid \in PageSids : PageDelete(sid)
    \/ \E sid \in PageSids, record \in PageRecords : PageUpdate(sid, record)
    \/ \E lsn \in PageLsns : PageSetHeader(lsn)
    \/ PageReload

SpecPage == Init /\ [][NextPage]_vars

NextTree ==
    \/ \E rows \in TreeSeeds : IndexCreate(rows)
    \/ \E k \in TreeKeys, v \in TreeValues : TreeInsert(k, v)
    \/ \E k \in TreeKeys, v \in TreeValues \cup {None} : TreeDelete(k, v)
    \/ \E k \in TreeKeys : TreeFind(k)
    \/ \E start \in TreeStarts, end \in TreeEnds, return_keys \in BOOLEAN :
          TreeFindRange(start, end, return_keys)
    \/ TreeSerialize
    \/ TreeDeserialize

SpecTree == Init /\ [][NextTree]_vars

NextTxn ==
    \/ \E th \in Threads : start_transaction(th)
    \/ \E th \in Threads, id \in TupleIds : TableInsert(th, id)
    \/ \E th \in Threads, l \in LiveLocations, id \in TupleIds : TableUpdate(th, l, id)
    \/ \E th \in Threads, l \in LiveLocations : TableDelete(th, l)
    \/ \E th \in Threads : commit_transaction(th)
    \/ \E th \in Threads : abort_transaction(th)
    \/ checkpoint
    \/ Crash
    \/ recovery

SpecTxn == Init /\ [][NextTxn]_vars

NextHeap ==
    \/ HeapStart
    \/ \E id \in HeapTupleIds : HeapInsert(id)
    \/ \E l \in HeapLive, id \in HeapTupleIds : HeapUpdate(l, id)
    \/ \E l \in HeapLive : HeapDelete(l)
    \/ \E l \in DOMAIN heap.written : HeapGet(l)
    \/ \E pageno \in HeapPages : HeapFetch(pageno)
    \/ HeapCheckpoint

SpecHeap == InitHeap /\ [][NextHeap]_vars

NextPlan == PlanScan

InitPlanning ==
    /\ InitLock /\ InitLRU /\ InitTxn /\ InitPage /\ InitTree
    /\ InitHeapSession /\ InitPlanQuery /\ InitIxSession /\ InitRedoWriters

SpecPlan == InitPlanning /\ [][NextPlan]_vars

NextIndex ==
    \/ IxStart
    \/ \E id \in IxTupleIds : IxInsert(id)
    \/ IxCommit
    \/ IxCreate
    \/ \E location \in IxLive : IxDelete(location)
    \/ IxAbort

SpecIndex == Init /\ [][NextIndex]_vars

\* the engine after a first session: thread 1 has inserted a = (1, 2) in
\* transaction 1 and committed, and a checkpoint has been taken
FreshDB ==
    [bp |-> BufferPool, redo |-> RedoLogManager, redo_file |-> <<>>,
     undo |-> EmptyDict, undo_files |-> EmptyDict,
     tbl |-> [t \in Tables |-> <<>>], current_xid |-> 0, idx |-> NoFile,
     err |-> "", ret |-> None]

CheckpointedDB ==
    checkpoint_mgr(
        commit_transaction_mgr(
            table_tuple_insert_one(start_transaction_mgr(FreshDB), 1, TheTable,
                                   Tup("a")),
            1, 1))

InitCheckpointedTxn ==
    /\ buffer_pool = CheckpointedDB.bp
    /\ redo_mgr = CheckpointedDB.redo
    /\ redo_file = CheckpointedDB.redo_file
    /\ undo_mgr = CheckpointedDB.undo
    /\ undo_files = CheckpointedDB.undo_files
    /\ tbl_files = CheckpointedDB.tbl
    /\ current_xid = CheckpointedDB.current_xid
    /\ thread_xid = [th \in Threads |-> IF th = 1 THEN 1 ELSE INVALID_XID]
    /\ phase = "up"
    /\ txn_last = [op |-> "checkpoint", th |-> 0, xid |-> INVALID_XID,
                   err |-> CheckpointedDB.err]
    /\ hist = [starts |-> 0, ops |-> 0, crashes |-> 0, ckpts |-> 0,
               pending |-> [th \in Threads |-> NoPending],
               committed |-> BagPlus(EmptyDict, Tup("a"), 1), deleted |-> {},
               snap |-> NoSnap, inflight |-> {}, failed |-> {}]

InitCheckpointed ==
    /\ InitLock /\ InitLRU /\ InitPage /\ InitTree /\ InitHeapSession
    /\ InitPlan /\ InitIxSession /\ InitRedoWriters
    /\ InitCheckpointedTxn

SpecCheckpointed == InitCheckpointed /\ [][NextTxn]_vars

NextRedo ==
    \E th \in Threads :
        \/ \E action \in RedoActions : RedoAppend(th, action)
        \/ RedoLoadLsn(th)
        \/ RedoStoreLsn(th)
        \/ RedoOpen(th)
        \/ RedoIter(th)
        \/ RedoClose(th)
        \/ RedoClear(th)
        \/ RedoReturn(th)

SpecRedo == Init /\ [][NextRedo]_vars

(***************************************************************************)
(* Lock manager properties                                                 *)
(***************************************************************************)
Held(r) == IF r \in DOMAIN locks THEN locks[r].lock_mode ELSE "free"

SoleHolder(r, x) ==
    /\ r \in DOMAIN locks
    /\ \A i \in DOMAIN locks[r].holders : locks[r].holders[i] = x

\* the grant table of section 4.8, by held mode and requested mode
GrantTable(r, x, m) ==
    CASE Held(r) = "free" -> TRUE
      [] Held(r) = "s" /\ m = "s" -> TRUE
      [] Held(r) = "s" /\ m = "x" -> SoleHolder(r, x)
      [] Held(r) = "x" /\ m = "s" -> SoleHolder(r, x)
      [] OTHER -> FALSE

\* C5: in every reachable lock table, for every resource, requester and mode,
\* one grant attempt succeeds exactly when the grant table says so: free ->
\* grant; S/S -> grant; S/X and X/S -> grant iff every holder entry is the
\* requester; X/X -> deny, also for the sole holder.
C5_GrantMatrix ==
    \A r \in Resources, x \in Threads, m \in Modes :
        _acquire_lock(locks, r, x, m).success = GrantTable(r, x, m)

\* C5 witness: a thread that alone holds X on a resource has just been denied
\* an X request on it.
C5_Witness ==
    \E th \in Threads :
        /\ lk[th].pc = "sleep" /\ lk[th].mode = "x"
        /\ Held(lk[th].resource) = "x"
        /\ SoleHolder(lk[th].resource, th)

\* C6: whenever a resource is held in mode X all its holder entries are one
\* xid, and a grant attempt by any other transaction, S or X, is denied.
C6_ExclusiveSafety ==
    \A r \in DOMAIN locks :
        locks[r].lock_mode = "x" =>
            /\ \A i, j \in DOMAIN locks[r].holders :
                   locks[r].holders[i] = locks[r].holders[j]
            /\ \A x \in Threads, m \in Modes :
                   x \notin Range(locks[r].holders) =>
                       ~_acquire_lock(locks, r, x, m).success

\* C6 witness: thread 1 upgraded S(r) to X(r) and thread 2's request on r ended
\* in LockConflictError.
C6_Witness ==
    /\ Held("r") = "x"
    /\ Count(locks["r"].holders, 1) = 2
    /\ lk[2].outcome = "raised"

\* C7: acquire_lock makes at most two grant attempts; it returns normally only
\* after a granted attempt and raises only after two denied ones; a denied
\* attempt leaves the lock table as it was; and every call ends.
C7_AcquireTerminates ==
    /\ [](\A th \in Threads :
            /\ lk[th].attempts <= 2
            /\ lk[th].outcome = "raised" => lk[th].attempts = 2
            /\ lk[th].outcome = "granted" => lk[th].attempts \in {1, 2})
    /\ [][\A th \in Threads :
            (acquire_lock_attempt(th) /\ lk'[th].pc = "sleep") => locks' = locks]_vars
    /\ \A th \in Threads : (lk[th].pc # "idle") ~> (lk[th].pc = "idle")

\* C7 witness: both threads ran out of attempts on requests for each other's
\* lock (each still holds its own X lock).
C7_Witness ==
    /\ lk[1].outcome = "raised" /\ lk[2].outcome = "raised"
    /\ Held("r") = "x" /\ Held("q") = "x"
    /\ locks["r"].holders # locks["q"].holders

\* C7 second case, for the record of the retry: an attempt granted on the
\* second try.
C7_SecondTryGranted == \E th \in Threads : lk[th].outcome = "granted" /\ lk[th].attempts = 2

\* C8: release_lock removes exactly one holder entry of the xid, deletes the
\* resource entry when no holder is left, changes nothing when the xid holds
\* nothing on the resource; no lock table entry has an empty holders list.
C8_ReleaseOne ==
    /\ [](\A r \in DOMAIN locks : locks[r].holders # <<>>)
    /\ [][\A th \in Threads, r \in Resources :
            release_lock(th, r) =>
                IF r \in DOMAIN locks /\ th \in Range(locks[r].holders)
                THEN /\ \A o \in DOMAIN locks \ {r} :
                            o \in DOMAIN locks' /\ locks'[o] = locks[o]
                     /\ IF Len(locks[r].holders) = 1
                        THEN r \notin DOMAIN locks'
                        ELSE /\ r \in DOMAIN locks'
                             /\ locks'[r].lock_mode = locks[r].lock_mode
                             /\ Len(locks'[r].holders) = Len(locks[r].holders) - 1
                             /\ \A x \in Threads :
                                    Count(locks'[r].holders, x) =
                                        Count(locks[r].holders, x) - (IF x = th THEN 1 ELSE 0)
                ELSE locks' = locks]_vars

\* C8 witness: after two nested acquisitions and one release the xid still
\* holds one entry.
C8_Witness ==
    \E th \in Threads, r \in DOMAIN locks :
        /\ lk[th].outcome = "released"
        /\ Count(locks[r].holders, th) = 1
        /\ locks[r].lock_mode = "x"

(***************************************************************************)
(* LRU cache properties                                                    *)
(***************************************************************************)
\* C9: the number of cached entries never exceeds the capacity, and the hash
\* map and the linked list hold the same keys, each once.
C9_SizeBound ==
    /\ Cardinality(DOMAIN lru.cache) <= lru.capacity
    /\ Range(lru.order) = DOMAIN lru.cache
    /\ Len(lru.order) = Cardinality(DOMAIN lru.cache)

\* C9 witness: a put on a full cache has evicted an entry.
C9_Witness ==
    /\ lru_last.call = "put"
    /\ Cardinality(DOMAIN lru.cache) = lru.capacity
    /\ DOMAIN lru.evicted # {}
    /\ lru_last.key \notin DOMAIN lru.evicted

\* the unpinned cached keys, least recently used first
UnpinnedInOrder(c) == SelectSeq(c.order, LAMBDA k : ~c.cache[k].pinned)

\* C10: a put of a new key on a full cache evicts exactly one entry, the least
\* recently used unpinned entry other than the new one, and keeps its value in
\* the evicted map.
C10_EvictsLRU ==
    [][\A k \in LruKeys, v \in LruVals :
        (/\ LruPut(k, v)
         /\ k \notin DOMAIN lru.cache
         /\ Cardinality(DOMAIN lru.cache) = lru.capacity)
        => /\ UnpinnedInOrder(lru) # <<>>
           /\ LET e == Head(UnpinnedInOrder(lru))
              IN  /\ DOMAIN lru'.cache = (DOMAIN lru.cache \ {e}) \cup {k}
                  /\ e \in DOMAIN lru'.evicted
                  /\ lru'.evicted[e] = lru.cache[e].value]_vars

\* C11: when the cache is at capacity and every cached entry is pinned, put of
\* a new key raises LRUError and leaves the cache, the list order and the
\* evicted map as they were; the new key is in neither map.
C11_FullPinnedRaises ==
    [][\A k \in LruKeys, v \in LruVals :
        (/\ LruPut(k, v)
         /\ k \notin DOMAIN lru.cache
         /\ Cardinality(DOMAIN lru.cache) = lru.capacity
         /\ \A j \in DOMAIN lru.cache : lru.cache[j].pinned)
        => /\ lru_last'.raised
           /\ lru'.cache = lru.cache
           /\ lru'.order = lru.order
           /\ lru'.evicted = lru.evicted
           /\ k \notin DOMAIN lru'.cache
           /\ k \notin DOMAIN lru'.evicted]_vars

\* C12: a key stays in the cache from pin(k) to the next unpin(k), whatever
\* get and put calls happen in between, put(k, v') included.
C12_PinnedStays ==
    [][lru_pinned => PinnedKey \in DOMAIN lru'.cache]_vars

(***************************************************************************)
(* Transactions: durability, atomicity, rollback, commit                   *)
(***************************************************************************)
CommittedVisible ==
    /\ \A v \in DOMAIN hist.committed : BagCount(LiveBag, v) >= hist.committed[v]
    /\ \A l \in hist.deleted : table_tuple_is_dead(DB, TheTable, l)

\* C1: durability - whenever recovery() has run after a crash, it has not
\* raised, every tuple written by a transaction whose COMMIT is in the redo
\* log file is read by a scan of the table, and every location deleted by
\* such a transaction reads as empty.
C1_Durability ==
    txn_last.op = "recovery" => (txn_last.err = "" /\ CommittedVisible)

\* C2: atomicity - whenever recovery() has run after a crash that left a
\* transaction in flight (BEGIN in the redo log file, no COMMIT), it has not
\* raised and a scan of the table returns the committed tuples only: nothing
\* the in-flight transaction wrote, everything it deleted or overwrote.
C2_Atomicity ==
    (txn_last.op = "recovery" /\ hist.inflight # {})
        => (txn_last.err = "" /\ LiveBag = hist.committed)

\* C3: runtime rollback - when abort_transaction returns for a transaction
\* that ran with no other transaction, it has not raised and the multiset of
\* live tuples of a scan equals the one at start_transaction.
C3_RuntimeRollback ==
    (txn_last.op = "abort" /\ hist.snap.th = txn_last.th)
        => (txn_last.err = "" /\ LiveBag = hist.snap.bag)

C13_FullIsAtomic ==
    [][\A sid \in PageSids, record \in PageRecords :
        (/\ PageInsert(record) \/ PageUpdate(sid, record)
         /\ pg_last'.err = "PageError")
        => pg' = pg]_vars

\* C13 witness: an update that had to move a NORMAL record raised PageError.
C13_Witness ==
    /\ pg_last.op = "update"
    /\ pg_last.err = "PageError"
    /\ pg.slot_directory[pg_last.sid + 1].state = "NORMAL"
    /\ BytesLen(pg_last.record) > pg.slot_directory[pg_last.sid + 1].length

\* C14: update(sid, new) on a NORMAL slot overwrites in place and returns sid
\* when len(new) <= slot.length, adding no slot; otherwise it marks the slot
\* DEAD, appends a slot and returns the new sid (or raises PageError on a full
\* page); select of the returned sid is new and select of every other NORMAL
\* slot is unchanged.
C14_UpdateInPlaceOrMove ==
    [][\A sid \in PageSids, record \in PageRecords :
        (/\ PageUpdate(sid, record)
         /\ sid < Len(pg.slot_directory)
         /\ pg.slot_directory[sid + 1].state = "NORMAL")
        => LET fits == BytesLen(record) <= pg.slot_directory[sid + 1].length
               ret == pg_last'.ret
           IN  IF pg_last'.err # ""
               THEN ~fits /\ pg_last'.err = "PageError"
               ELSE /\ fits => /\ ret = sid
                               /\ Len(pg'.slot_directory) = Len(pg.slot_directory)
                    /\ ~fits => /\ ret = Len(pg.slot_directory)
                                /\ Len(pg'.slot_directory) = Len(pg.slot_directory) + 1
                                /\ pg'.slot_directory[sid + 1].state = "DEAD"
                    /\ page_select(pg', ret).bytes = record
                    /\ \A o \in 0..(Len(pg.slot_directory) - 1) :
                          (o # sid /\ pg.slot_directory[o + 1].state = "NORMAL")
                          => page_select(pg', o) = page_select(pg, o)]_vars

\* C14 witness: an update moved a record next to another NORMAL record.
C14_Witness ==
    /\ pg_last.op = "update"
    /\ pg_last.err = ""
    /\ pg_last.ret # pg_last.sid
    /\ pg.slot_directory[pg_last.sid + 1].state = "DEAD"
    /\ \E o \in DOMAIN pg.slot_directory :
          o # pg_last.ret + 1 /\ pg.slot_directory[o].state = "NORMAL"

\* C15: for every page reached by inserts, deletes and updates, after
\* set_header the page serializes, deserialize(serialize(P)) has the same
\* header, slot directory and records as P, and select of every NORMAL slot
\* gives the bytes last written to it.
C15_PageRoundTrip ==
    \A lsn \in PageLsns :
        LET P == set_header(pg, lsn)
        IN  /\ serialize_ok(P)
            /\ deserialize(P) = P
            /\ \A sid \in 0..(Len(P.slot_directory) - 1) :
                  P.slot_directory[sid + 1].state = "NORMAL"
                  => page_select(deserialize(P), sid).bytes = pg_hist[sid + 1]

\* C15 witness: a full slot directory with a dead record and a shorter live
\* record has been written and read back.
C15_Witness ==
    /\ pg_last.op = "reload"
    /\ pg_last.err = ""
    /\ Len(pg.slot_directory) = MaxSlots
    /\ \E i, j \in DOMAIN pg.slot_directory :
          /\ pg.slot_directory[i].state = "DEAD"
          /\ pg.slot_directory[j].state = "NORMAL"
          /\ pg.slot_directory[j].length < pg.slot_directory[i].length

\* C16: a slot marked DEAD stays DEAD under every further page operation:
\* select of its sid keeps returning the empty bytes, so the location never
\* comes back in a scan and never designates another record.
C16_TombstonePermanent ==
    [][\A sid \in PageSids :
        (/\ sid < Len(pg.slot_directory)
         /\ pg.slot_directory[sid + 1].state = "DEAD")
        => /\ sid < Len(pg'.slot_directory)
           /\ pg'.slot_directory[sid + 1].state = "DEAD"
           /\ page_select(pg', sid).bytes = EmptyBytes]_vars

(***************************************************************************)
(* B+ tree properties                                                      *)
(***************************************************************************)
\* the leftmost leaf: children[0] from the root down
RECURSIVE LeftmostLeaf(_, _)
LeftmostLeaf(t, oid) ==
    IF t.nodes[oid].is_leaf \/ t.nodes[oid].children = <<>> THEN oid
    ELSE LeftmostLeaf(t, t.nodes[oid].children[1])

\* the entries <<key, value>> of the leaves from oid on, through next_leaf
RECURSIVE LeafEntries(_, _)
LeafEntries(t, oid) ==
    IF oid = NoNode THEN <<>>
    ELSE [i \in 1..Len(t.nodes[oid].keys) |->
             <<t.nodes[oid].keys[i], t.nodes[oid].values[i]>>]
         \o LeafEntries(t, t.nodes[oid].next_leaf)

AllEntries == LeafEntries(bt, LeftmostLeaf(bt, bt.root))

NonDecreasing(s) == \A i \in 1..(Len(s) - 1) : s[i] <= s[i + 1]

\* the values live under the key k, as a bag
LiveValues(k) ==
    [v \in {e[2] : e \in {x \in DOMAIN bt_hist.live : x[1] = k}} |->
        bt_hist.live[<<k, v>>]]

\* C17: on an in-memory tree, after any inserts and deletes, the keys of the
\* leaves from the leftmost leaf through next_leaf are in non-decreasing
\* order.
C17_LeafOrder ==
    ~bt_hist.lazy =>
        NonDecreasing([i \in 1..Len(AllEntries) |-> AllEntries[i][1]])

\* C18: on an in-memory tree, find(k) returns exactly the values inserted under
\* k and not deleted since, with multiplicity; delete(k) removes every entry
\* of k and delete(k, v) only the entries (k, v), so the leaves hold exactly
\* the live entries.
C18_FindComplete ==
    ~bt_hist.lazy =>
        /\ BagOfSeq(AllEntries) = bt_hist.live
        /\ \A k \in TreeKeys :
              LET r == tree_find(BT, k)
              IN  /\ r.err = ""
                  /\ BagOfSeq(r.ret) = LiveValues(k)

\* C19: on an in-memory tree, find_range(start, end) returns in key order
\* exactly the values, or the keys with return_keys, of the entries with
\* start < key < end, both bounds strict; with -inf and +inf every entry.
C19_FindRange ==
    ~bt_hist.lazy =>
        \A start \in TreeStarts, end \in TreeEnds :
            LET ks == tree_find_range(BT, start, end, TRUE)
                vs == tree_find_range(BT, start, end, FALSE)
                hits == SelectSeq(AllEntries,
                                  LAMBDA e : /\ (start = NegInf \/ start < e[1])
                                             /\ (end = PosInf \/ e[1] < end))
            IN  /\ ks.err = "" /\ vs.err = ""
                /\ NonDecreasing(ks.ret)
                /\ BagOfSeq(ks.ret) = BagOfSeq([i \in 1..Len(hits) |-> hits[i][1]])
                /\ BagOfSeq(vs.ret) = BagOfSeq([i \in 1..Len(hits) |-> hits[i][2]])

\* the entries of the leaf pages of an index file
FileEntries(file) ==
    UNION {{file.pages[p].slots[i] : i \in DOMAIN file.pages[p].slots} :
              p \in {q \in DOMAIN file.pages : file.pages[q].flags = 1}}

\* C20: the tree read back by deserialize from the file of a tree T of more
\* than one node answers find and find_range as T does, loading the children
\* on the way down; an insert into it followed by serialize keeps every entry
\* the file held.
C20_LazyRoundTrip ==
    [][/\ (/\ TreeDeserialize
           /\ bt_last.op \in {"create", "serialize"}
           /\ bt_last.err = ""
           /\ ~bt_hist.lazy
           /\ bt.node_count > 1)
          => /\ \A k \in TreeKeys :
                   tree_find(BTof(bt', bt_file'), k).ret = tree_find(BT, k).ret
             /\ \A start \in TreeStarts, end \in TreeEnds :
                   tree_find_range(BTof(bt', bt_file'), start, end, FALSE).ret
                       = tree_find_range(BT, start, end, FALSE).ret
       /\ (/\ TreeSerialize
           /\ bt_last.op = "insert"
           /\ bt_last.prev = "deserialize"
           /\ bt_last.err = ""
           /\ bt_last'.err = ""
           /\ Len(bt_file.pages) > 1)
          => FileEntries(bt_file) \subseteq FileEntries(bt_file')]_vars

(***************************************************************************)
(* Heap access properties                                                  *)
(***************************************************************************)
\* C21: every table_tuple_insert_one succeeds, also when the last page of the
\* table is full (the tuple then goes to a new page), and the location it
\* returns reads back the inserted tuple with table_tuple_get_one.
C21_InsertReadsBack ==
    heap.last.op = "insert"
        => /\ heap.last.err = ""
           /\ \E d \in {table_tuple_get_one(DB, TheTable, heap.last.ret)} :
                  d.err = "" /\ d.ret = heap.last.tup

\* C25: a transaction reads its own writes - table_tuple_get_one of a location
\* the transaction wrote returns the tuple last written there (the empty
\* tuple after a delete), whatever pages were fetched and whatever
\* checkpoints were taken in between, also after the page was evicted.
C25_ReadsOwnWrites ==
    heap.last.op = "get"
        => /\ heap.last.err = ""
           /\ heap.last.ret = heap.written[heap.last.location]


\* the number of redo records written so far, flushed or not
RedoCount(d) == Len(d.redo_file) + Len(d.redo.log_buffer)

\* C30: every successful table_tuple_insert_one, table_tuple_update_one and
\* table_tuple_delete_one appends exactly one undo record and exactly one
\* redo record, and when it returns the page that holds the mutated tuple is
\* in the dirty set with the header lsn equal to the lsn of that redo write.
C30_OneUndoOneRedo ==
    [][((\/ \E id \in HeapTupleIds : HeapInsert(id)
         \/ \E l \in HeapLive, id \in HeapTupleIds : HeapUpdate(l, id)
         \/ \E l \in HeapLive : HeapDelete(l))
        /\ heap'.last.err = "")
        => LET xid == session_xid(HeapThread)
               at == IF heap'.last.op = "delete" THEN heap'.last.location
                     ELSE heap'.last.ret
               key == <<TheTable, at[1]>>
           IN  /\ Len(undo_mgr'[xid]) = Len(undo_mgr[xid]) + 1
               /\ RedoCount(DB') = RedoCount(DB) + 1
               /\ key \in buffer_pool'.dirty_pages
               /\ InCache(DB', key)
               /\ PageOf(DB', key).lsn = redo_mgr'.write_lsn]_vars


(***************************************************************************)
(* Recovery, checkpoint and transaction ids                                *)
(***************************************************************************)
\* the pages of the table as the engine d sees them, by page number
TablePages(d) ==
    [p \in 0..(table_tuple_get_pages(d, TheTable) - 1) |-> PeekPage(d, TheTable, p)]

\* C22: when recovery() has returned, a second recovery() on the same files
\* returns too and leaves the same pages, the same live tuples and the same
\* redo log (file and log buffer): no record is applied a second time.
C22_RecoveryIdempotent ==
    (txn_last.op = "recovery" /\ txn_last.err = "")
        => \E d \in {recovery_mgr(DB)} :
               /\ d.err = ""
               /\ TablePages(d) = TablePages(DB)
               /\ table_tuple_get_all(d, TheTable) = table_tuple_get_all(DB, TheTable)
               /\ d.redo_file = redo_file
               /\ d.redo.log_buffer = redo_mgr.log_buffer

\* the page that get_all_dirty_pages yields for a dirty key: the cached page,
\* else the page kept in the evicted map
DirtyPage(key) ==
    IF key \in DOMAIN buffer_pool.lru_cache.cache
    THEN buffer_pool.lru_cache.cache[key].value
    ELSE buffer_pool.lru_cache.evicted[key]

\* C23: when checkpoint() returns, the dirty set is empty, every page that was
\* dirty is stored in the table file at its page number, equal to the page of
\* the pool (or of the evicted map), and the other pages and the page count
\* of the file are as before (the file grows only up to the highest dirty
\* page number), also at the second and later checkpoints of the same page.
C23_CheckpointFlushes ==
    [][(HeapCheckpoint /\ heap'.last.err = "")
        => LET dirty == buffer_pool.dirty_pages
               old == tbl_files[TheTable]
               new == tbl_files'[TheTable]
               top == Max({Len(old)} \cup {key[2] + 1 : key \in dirty})
           IN  /\ buffer_pool'.dirty_pages = {}
               /\ Len(new) = top
               /\ \A key \in dirty :
                     key[2] < Len(new) /\ new[key[2] + 1] = DirtyPage(key)
               /\ \A p \in 0..(Len(old) - 1) :
                     (<<TheTable, p>> \notin dirty /\ p < Len(new))
                         => new[p + 1] = old[p + 1]]_vars

\* the xids that have been handed out, as far as the engine's files and
\* memory tell: those of the redo records, of the files undo/<xid> and of
\* the open transactions
KnownXids ==
    {redo_file[i].xid : i \in DOMAIN redo_file}
        \cup {redo_mgr.log_buffer[i].xid : i \in DOMAIN redo_mgr.log_buffer}
        \cup DOMAIN undo_files \cup DOMAIN undo_mgr
        \cup {thread_xid[th] : th \in Threads}

\* C24: the xid returned by start_transaction is positive and greater than
\* every xid handed out before: than the session xid of every thread, than
\* every xid of a record of the redo log and than every xid with a file
\* undo/<xid>, also after a restart and recovery().
C24_XidFresh ==
    [][\A th \in Threads :
          start_transaction(th)
              => /\ thread_xid'[th] > 0
                 /\ \A x \in KnownXids : thread_xid'[th] > x]_vars

\* the number of COMMIT records of xid in a redo log file
RECURSIVE CommitCount(_, _)
CommitCount(file, xid) ==
    IF file = <<>> THEN 0
    ELSE (IF Head(file).action = "COMMIT" /\ Head(file).xid = xid THEN 1 ELSE 0)
         + CommitCount(Tail(file), xid)

\* the records recs are in the file, in order and next to each other
ContainsRun(file, recs) ==
    \E k \in 0..Len(file) :
        k + Len(recs) <= Len(file) /\ SubSeq(file, k + 1, k + Len(recs)) = recs

\* C29: in every execution of commit_transaction(xid), at each point where a
\* crash can fall (after the undo flush, after the redo write of COMMIT, after
\* the undo commit), if the COMMIT record of xid written by this execution is
\* in the redo log file, then every undo record the transaction had written
\* is in the file undo/<xid>.
C29_UndoBeforeCommit ==
    [][\A th \in Threads :
          (commit_transaction(th) /\ session_xid(th) \in DOMAIN undo_mgr)
              => LET xid == session_xid(th)
                     steps == commit_steps(DB, xid, xid)
                 IN  \A i \in DOMAIN steps :
                        CommitCount(steps[i].redo_file, xid)
                              > CommitCount(redo_file, xid)
                            => /\ xid \in DOMAIN steps[i].undo_files
                               /\ ContainsRun(steps[i].undo_files[xid],
                                              undo_mgr[xid])]_vars

\* C29 witness: a transaction that changed the table has committed: its undo
\* file holds BEGIN, a table record and COMMIT, and the redo log file ends
\* with its COMMIT.
C29_Witness ==
    /\ txn_last.op = "commit"
    /\ txn_last.err = ""
    /\ txn_last.xid \in DOMAIN undo_files
    /\ \E i \in DOMAIN undo_files[txn_last.xid] :
          undo_files[txn_last.xid][i].operation
              \in {"TABLE_INSERT", "TABLE_UPDATE", "TABLE_DELETE"}
    /\ undo_files[txn_last.xid][Len(undo_files[txn_last.xid])].operation = "COMMIT"
    /\ CommitCount(redo_file, txn_last.xid) > 0

(***************************************************************************)
(* Access-path selection properties                                        *)
(***************************************************************************)
\* the predicate of the planned scan is over one column
SingleColumnPredicate ==
    /\ plan.called
    /\ plan.node.condition.present
    /\ Len(condition_columns(plan.node.condition)) = 1

PredicateColumn == condition_columns(plan.node.condition)[1].column_name

\* the indexes of the planned table
PlanResults ==
    SelectSeq(plan.catalog_index, LAMBDA r : r.table_name = plan.node.table_name)

\* the indexes of the table whose leading column is the predicate's column
LeftPrefixIndexes ==
    SelectSeq(PlanResults, LAMBDA r : r.columns[1] = PredicateColumn)

\* C27: for a scan with a predicate on one column c, the candidate indexes
\* are exactly the indexes of the table whose leading column is c, and the
\* scan is a TableScan iff the table has no index or no candidate; a scan
\* with no predicate is a TableScan.
C27_LeftPrefixRule ==
    /\ SingleColumnPredicate
          => /\ candidate_indexes(PlanResults,
                                  condition_columns(plan.node.condition))
                    = LeftPrefixIndexes
             /\ (plan.result.name = "TableScan")
                    <=> (PlanResults = <<>> \/ LeftPrefixIndexes = <<>>)
    /\ (plan.called /\ ~ plan.node.condition.present)
          => plan.result.name = "TableScan"

\* the candidates implement_scan chose from
PlanCandidates ==
    candidate_indexes(PlanResults, condition_columns(plan.node.condition))

\* C28: when implement_scan has candidates, it emits CoveredIndexScan on a
\* candidate that has as many columns as the select list of the query, if
\* there is one, and otherwise IndexScan on a candidate with the fewest
\* columns.
C28_CoveredIndexChoice ==
    (SingleColumnPredicate /\ PlanCandidates # <<>>)
        => LET covering == {i \in DOMAIN PlanCandidates :
                               Len(PlanCandidates[i].columns) = Len(plan.project)}
           IN  IF covering # {}
               THEN /\ plan.result.name = "CoveredIndexScan"
                    /\ \E i \in covering :
                          plan.result.index_name = PlanCandidates[i].index_name
               ELSE /\ plan.result.name = "IndexScan"
                    /\ plan.result.index_name
                          = shortest_index(PlanCandidates).index_name

(***************************************************************************)
(* Index and table under rollback                                          *)
(***************************************************************************)
\* C26: when a transaction that started with the index consistent with the
\* table (every entry pointing to a live tuple with that key) has deleted
\* tuples, each with its index entry, and abort_transaction has run, the
\* index holds exactly the entries it held when the transaction started and
\* it is again consistent with the table.
C26_RollbackKeepsIndex ==
    (ix.last.op = "abort" /\ ix.consistent /\ ix.deletes > 0)
        => /\ ix.last.err = ""
           /\ BagOfSeq(IndexEntries(ix.file)) = BagOfSeq(ix.before)
           /\ IndexConsistent(DB)

(***************************************************************************)
(* Redo log under concurrent writers                                       *)
(***************************************************************************)
\* how often record r is in the sequence s
Occurrences(s, r) == Cardinality({i \in DOMAIN s : s[i] = r})

\* the position of record r in the order of the appends
AppendIndex(r) == CHOOSE i \in DOMAIN rw.hist.appended : rw.hist.appended[i] = r

\* C31: for any interleaving of write calls by several threads, every record
\* appended before a flush began is exactly once in the redo file when that
\* flush has completed, the records of the file are in the order of their
\* appends, and the lsn returned to a caller is the byte offset one past its
\* own record (the total length of the records appended up to it).
C31_OrderedLossless ==
    /\ \A r \in rw.hist.due : Occurrences(redo_file, r) = 1
    /\ \A i, j \in DOMAIN redo_file :
          i < j => AppendIndex(redo_file[i]) < AppendIndex(redo_file[j])
    /\ \A x \in rw.hist.returned :
          x.lsn = TotalLen(SubSeq(rw.hist.appended, 1, AppendIndex(x.record)))

(***************************************************************************)
(* Recovery: aborted transactions, checkpoints, dirty pages                *)
(***************************************************************************)
\* the state of recovery's second loop when it has replayed the redo file
\* from the last checkpoint on: the engine, the in-flight list, replay_lsn
Replayed(d) ==
    replay_all([d |-> [d EXCEPT !.redo.flush_lsn = TotalLen(d.redo_file),
                                !.redo.write_lsn = TotalLen(d.redo_file)],
                transactions |-> <<>>,
                replay_lsn |-> checkpoint_lsn_of(d.redo_file)],
               replay(d.redo_file, checkpoint_lsn_of(d.redo_file)))

\* the xids with an ABORT record among the records recovery replays
ReplayedAborts(d) ==
    LET records == replay(d.redo_file, checkpoint_lsn_of(d.redo_file))
    IN  {records[i].xid : i \in {j \in DOMAIN records : records[j].action = "ABORT"}}

\* the number of ABORT records of xid in the redo file and the log buffer
AbortCount(d, xid) ==
    Cardinality({i \in DOMAIN d.redo_file :
                    d.redo_file[i].action = "ABORT" /\ d.redo_file[i].xid = xid})
    + Cardinality({i \in DOMAIN d.redo.log_buffer :
                      d.redo.log_buffer[i].action = "ABORT"
                      /\ d.redo.log_buffer[i].xid = xid})

\* C32: when recovery has run without raising, a transaction whose ABORT
\* record was among the replayed records is not in the in-flight list at the
\* end of the replay (so its undo is applied once, by the ABORT record), and
\* recovery has written no further ABORT record for it.
C32_AbortedNotInFlight ==
    [][(recovery /\ txn_last'.err = "")
          => \A xid \in ReplayedAborts(DB) :
                /\ Count(Replayed(DB).transactions, xid) = 0
                /\ AbortCount(DB', xid) = AbortCount(DB, xid)]_vars

\* the position of the last CHECKPOINT record of a redo file, 0 if none
LastCheckpoint(file) ==
    Max({0} \cup {i \in DOMAIN file : file[i].action = "CHECKPOINT"})

\* the transactions that span the last checkpoint: BEGIN before it, neither
\* COMMIT nor ABORT before it
Spanning(file) ==
    {file[i].xid : i \in {j \in 1..LastCheckpoint(file) :
        /\ file[j].action = "BEGIN"
        /\ ~ \E k \in (j + 1)..LastCheckpoint(file) :
                 file[k].xid = file[j].xid /\ file[k].action \in {"COMMIT", "ABORT"}}}

EndsWith(file, xid, action) ==
    \E k \in (LastCheckpoint(file) + 1)..Len(file) :
        file[k].xid = xid /\ file[k].action = action

\* C33: when the redo file holds a CHECKPOINT record between the BEGIN of a
\* transaction and its COMMIT, or its end without COMMIT, recovery returns
\* without raising, writes no ABORT for the transaction that committed and
\* rolls back, with an ABORT record, the one that neither committed nor
\* aborted.
C33_SpanningCheckpoint ==
    [][(recovery /\ Spanning(redo_file) # {})
          => /\ txn_last'.err = ""
             /\ \A xid \in Spanning(redo_file) :
                   IF EndsWith(redo_file, xid, "COMMIT")
                   THEN AbortCount(DB', xid) = AbortCount(DB, xid)
                   ELSE EndsWith(redo_file, xid, "ABORT")
                        \/ AbortCount(DB', xid) = AbortCount(DB, xid) + 1]_vars

(***************************************************************************)
(* Write-ahead rules at checkpoint                                         *)
(***************************************************************************)
\* the page images a step has written to the table file
PagesWritten ==
    SubSeq(tbl_files'[TheTable], Len(tbl_files[TheTable]) + 1,
           Len(tbl_files'[TheTable]))

\* C34: every page image that checkpoint writes to the table file has a
\* header lsn that is at most the flush_lsn of the redo log at that moment,
\* and at most the size of the redo file: the redo record that last modified
\* the page is durable before the page is.
C34_RedoBeforePage ==
    [][checkpoint
          => \A i \in DOMAIN PagesWritten :
                /\ PagesWritten[i].lsn <= redo_mgr'.flush_lsn
                /\ PagesWritten[i].lsn <= TotalLen(redo_file')]_vars

\* the keys of the pages a checkpoint step has written: dirty before it and
\* no longer dirty after it
KeysWritten == buffer_pool.dirty_pages \ buffer_pool'.dirty_pages

\* C35: when checkpoint writes a page to the table file, every undo record of
\* a change that an open transaction made to that page is in the file
\* undo/<xid> of the transaction.
C35_UndoBeforePage ==
    [][checkpoint
          => \A xid \in DOMAIN undo_mgr :
                \A i \in DOMAIN undo_mgr[xid] :
                    (/\ undo_mgr[xid][i].operation
                            \in {"TABLE_INSERT", "TABLE_DELETE", "TABLE_UPDATE"}
                     /\ <<undo_mgr[xid][i].relation, undo_mgr[xid][i].location[1]>>
                            \in KeysWritten)
                        => /\ xid \in DOMAIN undo_files'
                           /\ \E j \in DOMAIN undo_files'[xid] :
                                 undo_files'[xid][j] = undo_mgr[xid][i]]_vars

\* C36: when recovery returns, every page of the pool whose contents differ
\* from the page of the table file before recovery (or that the file did not
\* hold) is in the dirty set.
C36_RecoveredPagesDirty ==
    [][(recovery /\ txn_last'.err = "")
          => \A key \in DOMAIN buffer_pool'.lru_cache.cache :
                (\/ key[2] >= Len(tbl_files[key[1]])
                 \/ buffer_pool'.lru_cache.cache[key].value
                        # deserialize(tbl_files[key[1]][key[2] + 1]))
                    => key \in buffer_pool'.dirty_pages]_vars

\* records handed to RedoLogManager.write by a session
SampleRedoRecords ==
    {RedoRecord(1, "BEGIN", None, NoLocation, EmptyBytes),
     RedoRecord(1, "COMMIT", None, NoLocation, EmptyBytes),
     RedoRecord(INVALID_XID, "CHECKPOINT", None, NoLocation, EmptyBytes),
     RedoRecord(1, "TABLE_INSERT", TheTable, <<0, 0>>, tuple_to_bytes(Tup("a")))}

\* the redo log manager of engine d keeps its two counters apart by the
\* length of the buffered records
LsnConsistent(d) ==
    /\ d.redo.flush_lsn <= d.redo.write_lsn
    /\ d.redo.write_lsn - d.redo.flush_lsn = TotalLen(d.redo.log_buffer)

\* write(record) on engine d0 adds len(record) to write_lsn and returns the
\* new write_lsn; when it flushes, flush_lsn is the size of the redo file
WriteKeepsLsn(d0, record) ==
    LET d == redo_write(d0, record) IN
        /\ d.err = ""
        /\ d.redo.write_lsn = d0.redo.write_lsn + RecordLen(record)
        /\ d.ret = d.redo.write_lsn
        /\ LsnConsistent(d)
        /\ d.redo_file # d0.redo_file => d.redo.flush_lsn = TotalLen(d.redo_file)

\* the invariants of C37 in the states of the runs, a recovery() called
\* again left aside
C37_RedoLsnOneRecovery ==
    /\ LsnConsistent(DB)
    /\ phase = "up" => redo_mgr.flush_lsn = TotalLen(redo_file)
    /\ phase = "up" => \A record \in SampleRedoRecords : WriteKeepsLsn(DB, record)

\* C37: in every state of a run of one thread at a time, right after a
\* recovery() included, flush_lsn <= write_lsn and write_lsn - flush_lsn is
\* the total length of the buffered records; once the engine is up
\* flush_lsn is the size of the redo file, and it is again after a write
\* that flushes; write(record) adds len(record) to write_lsn and returns the
\* new write_lsn.
C37_RedoLsn ==
    /\ C37_RedoLsnOneRecovery
    /\ (txn_last.op = "recovery" /\ txn_last.err = "")
           => LsnConsistent(recovery_mgr(DB))

\* C38: every dirty page - a page that a checkpoint hands to Page.serialize -
\* satisfies header_size + slots * slot_size + (free_space_end -
\* free_space_start) + records_size = PAGE_SIZE, and no checkpoint ends in
\* the AssertionError of serialize.
C38_PageSizeAtSerialize ==
    /\ \A key \in buffer_pool.dirty_pages : serialize_ok(DirtyPage(key))
    /\ heap.last.op = "checkpoint" => heap.last.err # "AssertionError"

\* the undo record the session's transaction wrote last, in engine d
LastUndo(d) ==
    LET records == d.undo[session_xid(HeapThread)] IN records[Len(records)]

\* page.select(sid) at a location, in engine d
SelectAt(d, location) ==
    page_select(PeekPage(d, TheTable, location[1]), location[2]).bytes

\* C39: an insert logs an undo TABLE_DELETE at the new location; a delete
\* logs an undo TABLE_INSERT with the bytes the slot held; an update logs an
\* undo TABLE_UPDATE with the bytes the slot held, and applying that record
\* makes select at the location return those bytes.
C39_UndoInverse ==
    [][(heap'.ops # heap.ops /\ heap'.last.err = "")
          => LET location == heap'.last.location
                 undo_record == LastUndo(DB')
             IN  /\ heap'.last.op = "insert"
                       => /\ undo_record.operation = "TABLE_DELETE"
                          /\ undo_record.location = heap'.last.ret
                 /\ heap'.last.op = "delete"
                       => /\ undo_record.operation = "TABLE_INSERT"
                          /\ undo_record.location = location
                          /\ undo_record.data = SelectAt(DB, location)
                 /\ heap'.last.op = "update"
                       => /\ undo_record.operation = "TABLE_UPDATE"
                          /\ undo_record.location = location
                          /\ undo_record.data = SelectAt(DB, location)
                          /\ LET d == undo_one(DB', undo_record, redo_mgr'.write_lsn)
                             IN  /\ d.err = ""
                                 /\ SelectAt(d, location) = SelectAt(DB, location)]_vars

\* the page holds the record and one more slot without exceeding PAGE_SIZE
Fits(page, record) ==
    HeaderSize + (Len(page.slot_directory) + 1) * SlotSize
        + page.records_size + BytesLen(record) <= PAGE_SIZE

\* C40: Page.insert succeeds whenever the header, the slots with the new
\* one, the records and the new record are at most PAGE_SIZE bytes, also
\* when they are exactly PAGE_SIZE bytes.
C40_InsertFullOnlyWhenExceeded ==
    [][\A record \in PageRecords \cup {FillRecord} :
          (PageInsert(record) /\ Fits(pg, record)) => pg_last'.err = ""]_vars

=============================================================================
